---- MODULE Spec2Model ----
(***************************************************************************)
(* Virtual-scrolling text engine of src/src/components/Editor.js.          *)
(*                                                                         *)
(* The engine is single threaded: every handler runs to its next await.    *)
(* A step of the model is one browser task: a user event, one display      *)
(* frame (the pending scroll event, then every requestAnimationFrame       *)
(* callback registered before the frame, in order), or the resolution of   *)
(* one invoke() promise together with every continuation that becomes      *)
(* runnable in the same microtask checkpoint.                              *)
(*                                                                         *)
(* Handlers are written as operators from a state record to a state        *)
(* record, so that a handler which calls another (scrollToLine calls       *)
(* renderVisibleLines, finishEdit calls scheduleRender) is the composition *)
(* of the two.  Pixels are integers; a rendered line is lineHeight pixels  *)
(* high (no word wrap in the modelled documents).                          *)
(***************************************************************************)
EXTENDS Integers, Sequences, FiniteSets, TLC

VARIABLES
    currentFileId,      \* 0 is null
    totalLines,
    lineHeight,
    renderedStartLine,
    renderedEndLine,
    currentLine,
    isEditing,
    editingLineIndex,
    cachedChunks,       \* insertion-ordered Map: sequence of chunks, key (s, e)
    scrollRAF,          \* "none", or the kind of the pending render frame
    renderGeneration,
    isRendering,
    pendingRender,
    renderSuppressed,
    lastScrollTop,
    scrollTop,          \* scrollArea.scrollTop
    clientHeight,       \* scrollArea.clientHeight
    spacerTop,          \* spacerTop.style.height
    spacerBottom,       \* spacerBottom.style.height
    linesContainer,     \* the materialized lines
    inflight,           \* get_text_chunk requests not yet resolved
    rafQueue,           \* requestAnimationFrame callbacks, in registration order
    scrollEvt,          \* a scroll event waits for the next frame
    totalReqs,          \* get_total_lines requests not yet resolved
    edit,               \* the line being typed in: <<>> or <<e>>
    commits,            \* replace_line requests not yet resolved
    undoReqs,           \* undo and redo requests not yet resolved
    searchMatches,      \* the 0-based line of each match, in match order
    activeMatchIndex,
    pendingScrollToMatch,
    style,              \* --font-size-editor in px, and the height a line measures
    storeLines,         \* external store: line count of each document
    storeText,          \* external store: text of the tracked line of each document
    modified,           \* number of on-modified notifications raised
    lineChanges,        \* the last on-line-change notification: <<>> or <<cur, total>>
    ops,                \* external events so far
    trace,              \* what each renderVisibleLines call of the last step did
    hist,               \* history of the requests, for the properties
    content             \* lines with search matches, and the nodes built for them

vars == <<currentFileId, totalLines, lineHeight, renderedStartLine, renderedEndLine,
          currentLine, isEditing, editingLineIndex, cachedChunks, scrollRAF,
          renderGeneration, isRendering, pendingRender, renderSuppressed,
          lastScrollTop, scrollTop, clientHeight, spacerTop, spacerBottom,
          linesContainer, inflight, rafQueue, scrollEvt, totalReqs, edit, commits,
          undoReqs, searchMatches, activeMatchIndex, pendingScrollToMatch, style,
          storeLines, storeText, modified, lineChanges, ops, trace, hist,
          content>>

----------------------------------------------------------------------------
(* Program constants *)

BUFFER_LINES == 150
CHUNK_ALIGN == 100
RERENDER_MARGIN == 50
MAX_SCROLL_HEIGHT == 15000000
\* the literal of `cachedChunks.size > 30`
CACHE_LIMIT == 30
\* `let lineHeight = 24`
INITIAL_LINE_HEIGHT == 24
\* `parseFloat(...) || 16`
DEFAULT_FONT_SIZE == 16

----------------------------------------------------------------------------
(* Bounds of the model *)

\* external events (user gestures, commands) in one behaviour
MaxOps == 2
\* external events in one behaviour of the edit specification
MaxEditOps == 3
\* text values a line can take
MaxText == 1
MaxCacheOps == 18
\* external events in one behaviour of the undo specification
MaxUndoOps == 2
\* external events in one behaviour of the search specification
MaxSearchOps == 3
\* external events in one behaviour of the specification of the state changes
MaxChangeOps == 3
\* external events in one behaviour of the specification of the shrinking document
MaxShrinkOps == 3
\* external events in one behaviour of the geometry specification
MaxGeomOps == 2
\* matches in one list of the highlighting specification
MaxMatches == 3
\* external events in one behaviour of the termination specification
MaxRestOps == 2

----------------------------------------------------------------------------
(* Environment: the documents of the external store and the user's inputs *)

Docs == {1, 2, 3}
InitialLines == <<10, 10000, 1000000>>
\* 0-based index of the line whose text the model tracks ("line 5")
TrackedLine == 4
Texts == 0..MaxText
NoText == -1
\* a request the store has not served when the text changes sees the new text
Live == -2
ScrollStops == {720, 3000, 12000}
JumpLines == {0, 5, 600}
ScrollStep == 300 * INITIAL_LINE_HEIGHT
LastPositions == {0, 600}
ViewHeights == {600, 120}
\* the match lists of a search (the 0-based line of each match) and the indexes
\* the search dialog passes
MatchLists == {<<>>, <<0, 0>>, <<600, 9999>>}
ActiveIndexes == {-1, 0, 1}
\* the documents a search runs on
SearchDocs == {2, 3}
\* the font sizes that get configured
FontSizes == {-1, 0, 12}
\* the documents and the measured line heights of the geometry specification
GeomLines == <<500000, 700000, 1000000>>
LineHeights == {INITIAL_LINE_HEIGHT, 30}
\* 1-based lines a caller asks to put at the top of the viewport
TopLines == {0, 1, 2, 8, 500000, 700001}
\* offsets the user scrolls to
GeomStops == {150, 364, 6000000, MAX_SCROLL_HEIGHT}
\* the scroll area keeps whole pixels: a fractional offset is truncated or rounded
Snaps == {"floor", "round"}
\* the text of the lines 0 and 1 of the chunk that is highlighted
LineTexts == <<<<"a", "b", "c">>, <<"d", "e", "f">>>>
\* the matches the search may report: a line and a span of characters
MatchSpans == [line : {0, 1}, line_char_start : 0..2, line_char_end : 1..3]
\* no lines have been built
NoContent == [matches |-> <<>>, active |-> -1, nodes |-> <<>>]
\* the documents as they are opened: the largest one at its top only
Openings == {o \in Docs \X LastPositions : o[1] = 3 => o[2] = 0}

----------------------------------------------------------------------------
(* Arithmetic *)

Max(a, b) == IF a >= b THEN a ELSE b
Min(a, b) == IF a <= b THEN a ELSE b
Abs(a) == IF a >= 0 THEN a ELSE -a
\* Math.floor(a / b) and Math.ceil(a / b) for b > 0
Floor(a, b) == a \div b
Ceil(a, b) == -((-a) \div b)

----------------------------------------------------------------------------
(* The state as a record *)

S == [currentFileId |-> currentFileId, totalLines |-> totalLines,
      lineHeight |-> lineHeight, renderedStartLine |-> renderedStartLine,
      renderedEndLine |-> renderedEndLine, currentLine |-> currentLine,
      isEditing |-> isEditing, editingLineIndex |-> editingLineIndex,
      cachedChunks |-> cachedChunks, scrollRAF |-> scrollRAF,
      renderGeneration |-> renderGeneration, isRendering |-> isRendering,
      pendingRender |-> pendingRender, renderSuppressed |-> renderSuppressed,
      lastScrollTop |-> lastScrollTop, scrollTop |-> scrollTop,
      clientHeight |-> clientHeight, spacerTop |-> spacerTop,
      spacerBottom |-> spacerBottom, linesContainer |-> linesContainer,
      inflight |-> inflight, rafQueue |-> rafQueue, scrollEvt |-> scrollEvt,
      totalReqs |-> totalReqs, edit |-> edit, commits |-> commits,
      undoReqs |-> undoReqs, searchMatches |-> searchMatches,
      activeMatchIndex |-> activeMatchIndex,
      pendingScrollToMatch |-> pendingScrollToMatch, style |-> style,
      storeLines |-> storeLines, storeText |-> storeText, modified |-> modified,
      lineChanges |-> lineChanges, ops |-> ops, trace |-> <<>>, hist |-> hist,
      rafCur |-> <<>>]

Set(s) ==
    /\ currentFileId' = s.currentFileId
    /\ totalLines' = s.totalLines
    /\ lineHeight' = s.lineHeight
    /\ renderedStartLine' = s.renderedStartLine
    /\ renderedEndLine' = s.renderedEndLine
    /\ currentLine' = s.currentLine
    /\ isEditing' = s.isEditing
    /\ editingLineIndex' = s.editingLineIndex
    /\ cachedChunks' = s.cachedChunks
    /\ scrollRAF' = s.scrollRAF
    /\ renderGeneration' = s.renderGeneration
    /\ isRendering' = s.isRendering
    /\ pendingRender' = s.pendingRender
    /\ renderSuppressed' = s.renderSuppressed
    /\ lastScrollTop' = s.lastScrollTop
    /\ scrollTop' = s.scrollTop
    /\ clientHeight' = s.clientHeight
    /\ spacerTop' = s.spacerTop
    /\ spacerBottom' = s.spacerBottom
    /\ linesContainer' = s.linesContainer
    /\ inflight' = s.inflight
    /\ rafQueue' = s.rafQueue
    /\ scrollEvt' = s.scrollEvt
    /\ totalReqs' = s.totalReqs
    /\ edit' = s.edit
    /\ commits' = s.commits
    /\ undoReqs' = s.undoReqs
    /\ searchMatches' = s.searchMatches
    /\ activeMatchIndex' = s.activeMatchIndex
    /\ pendingScrollToMatch' = s.pendingScrollToMatch
    /\ style' = s.style
    /\ storeLines' = s.storeLines
    /\ storeText' = s.storeText
    /\ modified' = s.modified
    /\ lineChanges' = s.lineChanges
    /\ ops' = s.ops
    /\ trace' = s.trace
    /\ hist' = s.hist
    /\ content' = content

\* who awaits a renderVisibleLines call, and what a frame callback is
Owner(k, line, after) == [k |-> k, line |-> line, after |-> after]
RafOwner == Owner("raf", 0, "none")
RafEntry(k, force, line, after) ==
    [k |-> k, force |-> force, line |-> line, after |-> after]

\* marks: the matches highlighted in the lines; active: the ordinal of the match
\* whose mark is the active one
NoLines == [start |-> 0, n |-> 0, doc |-> 0, orig |-> NoText, txt |-> NoText,
            marks |-> <<>>, active |-> -1]

----------------------------------------------------------------------------
(* Geometry *)

RECURSIVE Gcd(_, _)
Gcd(a, b) == IF b = 0 THEN a ELSE Gcd(b, a % b)

getScrollRatioUncompressed(s) == <<1, 1>>

\* getScrollRatio as the fraction <<numerator, denominator>> in lowest terms
getScrollRatio(s) ==
    LET naturalHeight == s.totalLines * s.lineHeight
        g == Gcd(MAX_SCROLL_HEIGHT, naturalHeight)
    IN  IF naturalHeight <= MAX_SCROLL_HEIGHT THEN <<1, 1>>
        ELSE <<MAX_SCROLL_HEIGHT \div g, naturalHeight \div g>>

lineAtScrollTopCeil(s, px) ==
    LET r == getScrollRatio(s)
    IN  Ceil(px * r[2], s.lineHeight * r[1])

\* Math.floor(px / (lineHeight * ratio))
lineAtScrollTop(s, px) ==
    LET r == getScrollRatio(s)
    IN  Floor(px * r[2], s.lineHeight * r[1])

\* the layout: height of the scrolled content and the largest scroll offset
ScrollHeight(s) == s.spacerTop + s.linesContainer.n * s.lineHeight + s.spacerBottom
MaxScrollTop(s) == Max(0, ScrollHeight(s) - s.clientHeight)

\* scrollArea.scrollTop = v: clamped by the browser, a change raises a scroll event
SetScrollTop(s, v) ==
    LET c == Max(0, Min(v, MaxScrollTop(s)))
    IN  IF c = s.scrollTop THEN s
        ELSE [s EXCEPT !.scrollTop = c, !.scrollEvt = TRUE]

\* (lineNumber - 1) * lineHeight * ratio, as the scroll area keeps it
scrollTopForLine(s, lineNumber, snap) ==
    LET r == getScrollRatio(s)
        num == (lineNumber - 1) * s.lineHeight * r[1]
    IN  IF snap = "round" THEN Floor(2 * num + r[2], 2 * r[2]) ELSE Floor(num, r[2])

scrollToLineTop(s, lineNumber, snap) ==
    IF lineNumber < 1 \/ lineNumber > s.totalLines THEN s
    ELSE SetScrollTop(s, scrollTopForLine(s, lineNumber, snap))

\* a layout after the content changed height clamps the scroll offset
Relayout(s) == SetScrollTop(s, s.scrollTop)

updateScrollHeight(s) ==
    LET naturalHeight == s.totalLines * s.lineHeight
    IN  [s EXCEPT !.spacerTop = 0,
                  !.spacerBottom = Min(naturalHeight, MAX_SCROLL_HEIGHT)]

\* index of the first child whose bottom is below the top of the viewport, or -1
FirstChildInView(s) ==
    LET d == s.scrollTop - s.spacerTop
        i == IF d < s.lineHeight THEN 0 ELSE Floor(d, s.lineHeight)
    IN  IF i < s.linesContainer.n THEN i ELSE -1

----------------------------------------------------------------------------
(* Chunk Store *)

\* a lookup that takes any cached range overlapping the requested one
KeyIndexOverlapping(cache, a, b) ==
    IF \E i \in 1..Len(cache) : cache[i].s < b /\ a < cache[i].e
    THEN CHOOSE i \in 1..Len(cache) : cache[i].s < b /\ a < cache[i].e
    ELSE 0

\* cachedChunks.has(startLine + '-' + endLine), and the place of that key
KeyIndex(cache, a, b) ==
    IF \E i \in 1..Len(cache) : cache[i].s = a /\ cache[i].e = b
    THEN CHOOSE i \in 1..Len(cache) : cache[i].s = a /\ cache[i].e = b
    ELSE 0

\* Map.set: a present key keeps its place, a new key goes last
MapSet(cache, c) ==
    LET i == KeyIndex(cache, c.s, c.e)
    IN  IF i = 0 THEN Append(cache, c) ELSE [cache EXCEPT ![i] = c]

\* the insert drops the entry inserted last instead of the one inserted first
StoreChunkEvictNewest(cache, c) ==
    MapSet(IF Len(cache) > CACHE_LIMIT THEN SubSeq(cache, 1, Len(cache) - 1) ELSE cache, c)

\* the part of getChunk that runs when the fetch has resolved
StoreChunk(cache, c) ==
    MapSet(IF Len(cache) > CACHE_LIMIT THEN Tail(cache) ELSE cache, c)

\* what get_text_chunk answers for a request
ChunkOf(s, f) ==
    LET cnt == IF f.cnt = Live THEN s.storeLines[f.doc] ELSE f.cnt
        n == Max(0, Min(f.e, cnt) - f.s)
        has == f.s <= TrackedLine /\ TrackedLine < f.s + n
    IN  [s |-> f.s, e |-> f.e, doc |-> f.doc, n |-> n,
         txt |-> IF ~has THEN NoText
                 ELSE IF f.txt = Live THEN s.storeText[f.doc] ELSE f.txt]

Fetch(s, a, b, pass) ==
    [s |-> a, e |-> b, doc |-> s.currentFileId, txt |-> Live, cnt |-> Live,
     pass |-> pass]

----------------------------------------------------------------------------
(* Render Scheduler *)

\* the record of one renderVisibleLines call: what it did (res), whether a pass was
\* executing when it was made, and the geometry it computed
Note(s, res, busy, force, fv, vc, a, b, total) ==
    [s EXCEPT !.trace = Append(@, [res |-> res, busy |-> busy, force |-> force,
                                   fv |-> fv, vc |-> vc, s |-> a, e |-> b,
                                   total |-> total, gen |-> s.renderGeneration])]

NotRender(e) == e.k # "render"

\* cancelAnimationFrame(scrollRAF), when scrollRAF is set
CancelRAF(s) ==
    IF s.scrollRAF = "none" THEN s
    ELSE [s EXCEPT !.rafQueue = SelectSeq(@, NotRender),
                   !.rafCur = SelectSeq(@, NotRender),
                   !.scrollRAF = "none"]

\* scrollRAF = requestAnimationFrame(() => renderVisibleLines(force))
RequestRenderFrame(s, force) ==
    [s EXCEPT !.scrollRAF = IF force THEN "force" ELSE "scroll",
              !.rafQueue = Append(@, RafEntry("render", force, 0, "none"))]

\* a scroll listener that schedules a frame for every scroll event
onScrollEveryEvent(s) == RequestRenderFrame(s, FALSE)

onScroll(s) ==
    IF s.scrollRAF # "none" THEN s ELSE RequestRenderFrame(s, FALSE)

\* a forced schedule request that leaves the frame already scheduled in place
scheduleRenderKeepsFrame(s) ==
    IF s.renderSuppressed THEN s
    ELSE RequestRenderFrame([s EXCEPT !.renderGeneration = @ + 1], TRUE)

\* a forced schedule request that keeps the generation
scheduleRenderSameGeneration(s) ==
    IF s.renderSuppressed THEN s
    ELSE RequestRenderFrame(CancelRAF(s), TRUE)

scheduleRender(s) ==
    IF s.renderSuppressed THEN s
    ELSE RequestRenderFrame(
            [CancelRAF(s) EXCEPT !.renderGeneration = @ + 1], TRUE)

\* the caller of scrollToLine resumes
AfterJump(s, after) ==
    IF after = "sched" THEN scheduleRender(s) ELSE s

\* the caller of refreshContent resumes: undo and redo raise on-modified
AfterRefresh(s, after) ==
    IF after = "modified" THEN [s EXCEPT !.modified = @ + 1] ELSE s

\* the caller that awaited renderVisibleLines resumes
AfterRender(s, owner) ==
    IF owner.k = "jump"
    THEN [s EXCEPT !.rafQueue = Append(@, RafEntry("jump1", FALSE, owner.line, owner.after))]
    ELSE IF owner.k = "refresh" THEN AfterRefresh(s, owner.after)
    ELSE s

\* a finally block that keeps the scheduled frame and adds its own
FinallyKeepsFrame(s) ==
    LET s1 == [s EXCEPT !.isRendering = FALSE]
    IN  IF ~s1.pendingRender THEN s1
        ELSE LET s2 == [s1 EXCEPT !.pendingRender = FALSE]
             IN  IF s2.renderSuppressed THEN s2
                 ELSE RequestRenderFrame(s2, FALSE)

\* the finally block of renderVisibleLines
Finally(s) ==
    LET s1 == [s EXCEPT !.isRendering = FALSE]
    IN  IF ~s1.pendingRender THEN s1
        ELSE LET s2 == [s1 EXCEPT !.pendingRender = FALSE]
             IN  IF s2.renderSuppressed THEN s2
                 ELSE RequestRenderFrame(CancelRAF(s2), FALSE)

Detached(e) == [e EXCEPT !.attached = FALSE]

DetachAll(q) == [i \in 1..Len(q) |-> Detached(q[i])]

\* renderLines: the children of linesContainer are replaced
renderLines(s, chunk, startLine) ==
    [s EXCEPT !.linesContainer = [start |-> startLine, n |-> chunk.n, doc |-> chunk.doc,
                                  orig |-> chunk.txt, txt |-> chunk.txt,
                                  marks |-> s.searchMatches,
                                  active |-> s.activeMatchIndex],
              !.edit = DetachAll(@),
              !.commits = DetachAll(@)]

\* a prefetch that is issued for an empty range as well
PrefetchAnyRange(s, a, b) ==
    IF KeyIndex(s.cachedChunks, a, b) = 0
    THEN [s EXCEPT !.inflight = Append(@, Fetch(s, a, b, <<>>))]
    ELSE s

\* getChunk for the prefetch: a hit returns at once, a miss issues a fetch
Prefetch(s, a, b) ==
    IF a < b /\ KeyIndex(s.cachedChunks, a, b) = 0
    THEN [s EXCEPT !.inflight = Append(@, Fetch(s, a, b, <<>>))]
    ELSE s

\* index of the first child with the class search-match-active, or -1
ActiveChild(s) ==
    LET c == s.linesContainer
    IN  IF c.active >= 0 /\ c.active < Len(c.marks)
        THEN LET i == c.marks[c.active + 1] - c.start
             IN  IF i >= 0 /\ i < c.n THEN i ELSE -1
        ELSE -1

\* the correction of a render that follows setActiveMatch: the active line is
\* moved to the centre of the viewport
CentreMatch(s) ==
    IF ~s.pendingScrollToMatch THEN s
    ELSE LET s1 == [s EXCEPT !.pendingScrollToMatch = FALSE]
             i == ActiveChild(s1)
             \* twice the offset of the centre of the line from the centre of the viewport
             off2 == 2 * (s1.spacerTop + i * s1.lineHeight - s1.scrollTop)
                       + s1.lineHeight - s1.clientHeight
         IN  IF i >= 0 /\ Abs(off2) > 4
             THEN SetScrollTop(s1, s1.scrollTop + Floor(off2, 2))
             ELSE s1

\* renderVisibleLines after the generation check: the chunk is materialized
Materialize(s, p, chunk) ==
    LET lh == s.lineHeight
        hasAnchor == /\ ~p.force
                     /\ s.renderedStartLine >= 0
                     /\ p.fv - s.renderedStartLine >= 0
                     /\ p.fv - s.renderedStartLine < s.linesContainer.n
        anchorScreenY == s.spacerTop + (p.fv - s.renderedStartLine) * lh - s.scrollTop
        totalVirtualHeight == Min(s.totalLines * lh, MAX_SCROLL_HEIGHT)
        topHeight == Max(0, p.top - (p.fv - p.s) * lh)
        s1 == Relayout([renderLines([s EXCEPT !.spacerTop = topHeight], chunk, p.s)
                          EXCEPT !.renderedStartLine = p.s,
                                 !.renderedEndLine = p.e])
        idx == p.fv - p.s
        inDom == idx >= 0 /\ idx < s1.linesContainer.n
        newScreenY == s1.spacerTop + idx * lh - s1.scrollTop
        drift == IF hasAnchor THEN newScreenY - anchorScreenY ELSE newScreenY
        s2 == IF inDom /\ Abs(drift) > 1
              THEN [s1 EXCEPT !.spacerTop = Max(0, topHeight - drift)]
              ELSE s1
        s3 == Relayout([s2 EXCEPT !.spacerBottom =
                  Max(0, totalVirtualHeight - s2.spacerTop - s2.linesContainer.n * lh)])
        prefetchStart == IF p.down THEN p.e ELSE Max(0, p.s - CHUNK_ALIGN)
        prefetchEnd == IF p.down THEN Min(s.totalLines, p.e + CHUNK_ALIGN) ELSE p.s
        s4 == CentreMatch(Prefetch([s3 EXCEPT !.hist.shown = p.epoch],
                                   prefetchStart, prefetchEnd))
    IN  Note([s4 EXCEPT !.hist.moved = @ \/ (/\ ~s.pendingScrollToMatch
                                              /\ s4.scrollTop # s.scrollTop),
                        !.hist.owed = FALSE],
             "rendered", FALSE, p.force, p.fv, p.vc, p.s, p.e, p.total)

\* a pass that takes whatever generation it finds
RenderBodyAnyGeneration(s, p, got) ==
    IF got = <<>> THEN Note(s, "failed", FALSE, p.force, p.fv, p.vc, p.s, p.e, p.total)
    ELSE Materialize(s, p, got[1])

\* a pass that materializes a failed fetch as an empty chunk
RenderBodyNullChunk(s, p, got) ==
    IF got = <<>>
    THEN Materialize(s, p, [s |-> p.s, e |-> p.e, doc |-> s.currentFileId, n |-> 0,
                            txt |-> NoText])
    ELSE IF p.gen # s.renderGeneration
    THEN Note(s, "stale", FALSE, p.force, p.fv, p.vc, p.s, p.e, p.total)
    ELSE Materialize(s, p, got[1])

\* renderVisibleLines from the resolution of `await getChunk' on:
\* got is <<>> for null, <<chunk>> otherwise
RenderBody(s, p, got) ==
    IF got = <<>> THEN Note(s, "failed", FALSE, p.force, p.fv, p.vc, p.s, p.e, p.total)
    ELSE IF p.gen # s.renderGeneration
    THEN Note(s, "stale", FALSE, p.force, p.fv, p.vc, p.s, p.e, p.total)
    ELSE Materialize(s, p, got[1])

\* a pass that returns from a failed fetch without its finally block
RenderFinishFailedKeepsFlag(s, p, got) ==
    IF got = <<>> THEN AfterRender(RenderBody(s, p, got), p.owner)
    ELSE AfterRender(Finally(RenderBody(s, p, got)), p.owner)

\* the rest of a render pass once its chunk is known, and its awaiting caller
RenderFinish(s, p, got) == AfterRender(Finally(RenderBody(s, p, got)), p.owner)

\* an end of range that is cut to the alignment below instead of above
RangeEndFloor(total, firstVisible, visibleCount, bufferBelow) ==
    LET rawEnd == Min(total, firstVisible + visibleCount + bufferBelow)
    IN  Min(total, Floor(rawEnd, CHUNK_ALIGN) * CHUNK_ALIGN)

\* startLine and endLine of the range to materialize
RangeStart(firstVisible, bufferAbove) ==
    LET rawStart == Max(0, firstVisible - bufferAbove)
    IN  Floor(rawStart, CHUNK_ALIGN) * CHUNK_ALIGN

RangeEnd(total, firstVisible, visibleCount, bufferBelow) ==
    LET rawEnd == Min(total, firstVisible + visibleCount + bufferBelow)
    IN  Min(total, Ceil(rawEnd, CHUNK_ALIGN) * CHUNK_ALIGN)

\* a scheduler that re-renders on every frame
\* a margin check that also holds back forced passes
InsideMarginsAnyPass(s, force, firstVisible, visibleCount) ==
    /\ s.renderedStartLine >= 0
    /\ firstVisible - s.renderedStartLine >= RERENDER_MARGIN
    /\ s.renderedEndLine - (firstVisible + visibleCount) >= RERENDER_MARGIN

NeverInside(s, force, firstVisible, visibleCount) == FALSE

\* the margin check: the viewport is well inside the materialized window
InsideMargins(s, force, firstVisible, visibleCount) ==
    /\ ~force
    /\ s.renderedStartLine >= 0
    /\ firstVisible - s.renderedStartLine >= RERENDER_MARGIN
    /\ s.renderedEndLine - (firstVisible + visibleCount) >= RERENDER_MARGIN

\* a scheduler that re-renders an unchanged range
NeverSameRange(s, force, startLine, endLine) == FALSE

\* the identical-range check
SameRange(s, force, startLine, endLine) ==
    ~force /\ startLine = s.renderedStartLine /\ endLine = s.renderedEndLine

\* renderVisibleLines once it holds the busy flag, up to `await getChunk'
RenderPass(s, force, owner) ==
    LET top == s.scrollTop
        visibleCount == Ceil(s.clientHeight, s.lineHeight)
        child == FirstChildInView(s)
        firstVisible ==
            IF ~force /\ s.renderedStartLine >= 0 /\ s.linesContainer.n > 0 /\ child >= 0
            THEN s.renderedStartLine + child
            ELSE lineAtScrollTop(s, top)
        newCurrentLine == firstVisible + 1
        s1 == IF newCurrentLine # s.currentLine
              THEN [s EXCEPT !.isRendering = TRUE,
                             !.currentLine = newCurrentLine,
                             !.lineChanges = <<newCurrentLine, s.totalLines>>]
              ELSE [s EXCEPT !.isRendering = TRUE]
        scrollingDown == top >= s.lastScrollTop
        bufferAbove == IF scrollingDown THEN (BUFFER_LINES * 2) \div 3 ELSE BUFFER_LINES
        bufferBelow == IF scrollingDown THEN BUFFER_LINES ELSE (BUFFER_LINES * 2) \div 3
        startLine == RangeStart(firstVisible, bufferAbove)
        endLine == RangeEnd(s.totalLines, firstVisible, visibleCount, bufferBelow)
        s2 == [s1 EXCEPT !.lastScrollTop = top]
        p == [gen |-> s.renderGeneration, top |-> top, fv |-> firstVisible,
              vc |-> visibleCount, s |-> startLine, e |-> endLine, force |-> force,
              down |-> scrollingDown, owner |-> owner,
              total |-> s.totalLines, epoch |-> s.hist.epoch]
        i == KeyIndex(s.cachedChunks, startLine, endLine)
    IN  IF InsideMargins(s, force, firstVisible, visibleCount)
        THEN AfterRender(Finally(Note(s2, "margin", s.isRendering, force, firstVisible,
                                      visibleCount, startLine, endLine, s.totalLines)),
                         owner)
        ELSE IF SameRange(s, force, startLine, endLine)
        THEN AfterRender(Finally(Note(s2, "same", s.isRendering, force, firstVisible,
                                      visibleCount, startLine, endLine, s.totalLines)),
                         owner)
        ELSE IF i > 0
        THEN RenderFinish(Note(s2, "hit", s.isRendering, force, firstVisible,
                               visibleCount, startLine, endLine, s.totalLines),
                          p, <<s.cachedChunks[i]>>)
        ELSE Note([s2 EXCEPT !.inflight = Append(@, Fetch(s, startLine, endLine, <<p>>))],
                  "fetch", s.isRendering, force, firstVisible, visibleCount,
                  startLine, endLine, s.totalLines)

\* a render routine without the busy flag check
renderVisibleLinesReentrant(s, force, owner) ==
    IF s.currentFileId = 0 \/ s.totalLines = 0
    THEN AfterRender(Note(s, "nofile", s.isRendering, force, 0, 0, 0, 0, 0), owner)
    ELSE RenderPass(s, force, owner)

renderVisibleLines(s, force, owner) ==
    IF s.currentFileId = 0 \/ s.totalLines = 0
    THEN AfterRender(Note(s, "nofile", s.isRendering, force, 0, 0, 0, 0, 0), owner)
    ELSE IF s.isRendering
    THEN AfterRender(Note([s EXCEPT !.pendingRender = TRUE,
                                    !.hist.owed = @ \/ force],
                          "busy", TRUE, force, 0, 0, 0, 0, 0), owner)
    ELSE RenderPass(s, force, owner)

----------------------------------------------------------------------------
(* Explicit jumps, load, refresh *)

\* scrollToLine for a line in range, up to its first await
JumpStep1(s, lineNumber, after) ==
    LET r == getScrollRatio(s)
        \* (lineNumber - 1) * lineHeight * ratio - viewportHeight / 2 + lineHeight / 2
        target == Floor(2 * (lineNumber - 1) * s.lineHeight * r[1]
                          + r[2] * (s.lineHeight - s.clientHeight), 2 * r[2])
        s1 == SetScrollTop([s EXCEPT !.currentLine = lineNumber,
                                     !.lineChanges = <<lineNumber, s.totalLines>>],
                           target)
    IN  renderVisibleLines([s1 EXCEPT !.renderGeneration = @ + 1], TRUE,
                           Owner("jump", lineNumber, after))

\* a jump that clamps an out-of-range line instead of ignoring it
scrollToLineClamped(s, lineNumber, after) ==
    JumpStep1(s, Max(1, Min(lineNumber, s.totalLines)), after)

\* scrollToLine up to its first await; `after' is what its caller does next
scrollToLine(s, lineNumber, after) ==
    IF lineNumber < 1 \/ lineNumber > s.totalLines THEN AfterJump(s, after)
    ELSE JumpStep1(s, lineNumber, after)

\* scrollToLine after its two frames: centre the target line, cancel follow-ups
JumpStep3(s, lineNumber, after) ==
    LET targetIdx == lineNumber - 1 - s.renderedStartLine
        \* twice the offset of the centre of the line from the centre of the viewport
        off2 == 2 * (s.spacerTop + targetIdx * s.lineHeight - s.scrollTop)
                  + s.lineHeight - s.clientHeight
        s1 == IF targetIdx >= 0 /\ targetIdx < s.linesContainer.n /\ Abs(off2) > 2
              THEN SetScrollTop(s, s.scrollTop + Floor(off2, 2))
              ELSE s
    IN  AfterJump([CancelRAF([s1 EXCEPT !.lastScrollTop = s1.scrollTop])
                     EXCEPT !.pendingRender = FALSE], after)

\* loadFile up to `await new Promise(r => requestAnimationFrame(r))'
loadFile(s, id, total_lines, last_position) ==
    LET s1 == [s EXCEPT !.currentFileId = id,
                        !.totalLines = total_lines,
                        !.currentLine = last_position,
                        !.renderedStartLine = -1,
                        !.renderedEndLine = -1,
                        !.cachedChunks = <<>>,
                        !.searchMatches = <<>>,
                        !.activeMatchIndex = -1]
    IN  [Relayout(updateScrollHeight(s1))
           EXCEPT !.rafQueue = Append(@, RafEntry("load", FALSE, 0, "none"))]

\* loadFile after the frame
LoadCont(s) ==
    LET s1 == [s EXCEPT !.renderGeneration = @ + 1]
    IN  IF s1.currentLine > 0 THEN scrollToLine(s1, s1.currentLine, "none")
        ELSE renderVisibleLines(SetScrollTop(s1, 0), TRUE, Owner("load", 0, "none"))

\* clear: no document, no line elements; the hidden scroll area loses its offset
clear(s) ==
    [s EXCEPT !.currentFileId = 0,
              !.totalLines = 0,
              !.currentLine = 0,
              !.renderedStartLine = -1,
              !.renderedEndLine = -1,
              !.cachedChunks = <<>>,
              !.searchMatches = <<>>,
              !.activeMatchIndex = -1,
              !.linesContainer = NoLines,
              !.edit = DetachAll(@),
              !.commits = DetachAll(@),
              !.scrollTop = 0]

\* refreshContent up to `await invoke('get_total_lines')'
refreshContent(s, after) ==
    IF s.currentFileId = 0 THEN AfterRefresh(s, after)
    ELSE [s EXCEPT !.totalReqs = Append(@, [doc |-> s.currentFileId, after |-> after])]

\* a refresh that forgets the rendered range
RefreshContResetsRange(s, lines, after) ==
    LET s1 == Relayout(updateScrollHeight([s EXCEPT !.totalLines = lines]))
    IN  renderVisibleLines([s1 EXCEPT !.cachedChunks = <<>>,
                                      !.renderedStartLine = -1,
                                      !.renderedEndLine = -1,
                                      !.renderGeneration = @ + 1],
                           TRUE, Owner("refresh", 0, after))

\* refreshContent after get_total_lines resolved with `lines'
RefreshCont(s, lines, after) ==
    LET s1 == Relayout(updateScrollHeight([s EXCEPT !.totalLines = lines]))
    IN  renderVisibleLines([s1 EXCEPT !.cachedChunks = <<>>,
                                      !.renderGeneration = @ + 1],
                           TRUE, Owner("refresh", 0, after))

\* the height of one line: the measured height of a test line when it is laid
\* out, Math.ceil(fontSize * 1.5) otherwise; an unparsable or zero font size
\* counts as the default
calculateLineHeight(s) ==
    LET fontSize == IF s.style.fontSize = 0 THEN DEFAULT_FONT_SIZE ELSE s.style.fontSize
    IN  [s EXCEPT !.lineHeight = IF s.style.measured > 0 THEN s.style.measured
                                 ELSE Ceil(fontSize * 3, 2)]

\* updateFontSize, the test line then measuring `measured' pixels
updateFontSize(s, size, measured) ==
    LET s1 == calculateLineHeight([s EXCEPT !.style = [fontSize |-> size,
                                                       measured |-> measured]])
    IN  scheduleRender([Relayout(updateScrollHeight(s1)) EXCEPT !.cachedChunks = <<>>])

\* the window resize listener
onResize(s) ==
    IF s.renderSuppressed THEN s
    ELSE LET s1 == calculateLineHeight(s)
         IN  IF s1.currentFileId # 0 THEN scheduleRender(s1) ELSE s1

----------------------------------------------------------------------------
(* Search highlighting: the nodes of a line *)

\* String.prototype.substring
substring(text, a, b) ==
    LET lo == Max(0, Min(Min(a, b), Len(text)))
        hi == Max(0, Min(Max(a, b), Len(text)))
    IN  SubSeq(text, lo + 1, hi)

\* the matches of the list on one line, each with its place in the list
RECURSIVE matchesByLine(_, _, _)
matchesByLine(matches, lineIdx, idx) ==
    IF idx >= Len(matches) THEN <<>>
    ELSE (IF matches[idx + 1].line = lineIdx
          THEN <<[match |-> matches[idx + 1], globalIdx |-> idx]>>
          ELSE <<>>) \o matchesByLine(matches, lineIdx, idx + 1)

\* lineMatches.sort by line_char_start: the sort is stable
RECURSIVE sortByStart(_)
sortByStart(lineMatches) ==
    IF lineMatches = <<>> THEN <<>>
    ELSE LET n == Len(lineMatches)
             m == lineMatches[n]
             pre == sortByStart(SubSeq(lineMatches, 1, n - 1))
             k == Cardinality({i \in 1..(n - 1) :
                     pre[i].match.line_char_start <= m.match.line_char_start})
         IN  SubSeq(pre, 1, k) \o <<m>> \o SubSeq(pre, k + 1, n - 1)

\* the loop of buildHighlightedContent and the text after the last match: a
\* node is a text node or a mark; `from' is the offset its text was cut at
RECURSIVE appendNodes(_, _, _, _)
appendNodes(text, lineMatches, lastEnd, active) ==
    IF lineMatches = <<>>
    THEN IF lastEnd < Len(text)
         THEN <<[mark |-> FALSE, active |-> FALSE, globalIdx |-> -1, from |-> lastEnd,
                 text |-> substring(text, lastEnd, Len(text))]>>
         ELSE <<>>
    ELSE LET m == Head(lineMatches).match
             before == IF m.line_char_start > lastEnd
                       THEN <<[mark |-> FALSE, active |-> FALSE, globalIdx |-> -1,
                               from |-> lastEnd,
                               text |-> substring(text, lastEnd, m.line_char_start)]>>
                       ELSE <<>>
             mark == [mark |-> TRUE,
                      active |-> Head(lineMatches).globalIdx = active,
                      globalIdx |-> Head(lineMatches).globalIdx,
                      from |-> m.line_char_start,
                      text |-> substring(text, m.line_char_start, m.line_char_end)]
         IN  before \o <<mark>>
                \o appendNodes(text, Tail(lineMatches), m.line_char_end, active)

\* the nodes of a line whose matches are taken in the order of the list
buildHighlightedContentUnsorted(text, lineMatches, active) ==
    appendNodes(text, lineMatches, 0, active)

buildHighlightedContent(text, lineMatches, active) ==
    appendNodes(text, sortByStart(lineMatches), 0, active)

\* renderLines: the content of line lineIdx of the chunk
lineContent(text, matches, lineIdx, active) ==
    LET lineMatches == matchesByLine(matches, lineIdx, 0)
    IN  IF Len(lineMatches) > 0
        THEN buildHighlightedContent(text, lineMatches, active)
        ELSE <<[mark |-> FALSE, active |-> FALSE, globalIdx |-> -1, from |-> 0,
                text |-> text]>>

----------------------------------------------------------------------------
(* Search highlighting, current line *)

setSearchMatches(s, matches, activeIndex) ==
    scheduleRender([s EXCEPT !.searchMatches = matches,
                             !.activeMatchIndex = activeIndex,
                             !.cachedChunks = <<>>])

\* setActiveMatch up to its first await
setActiveMatch(s, index) ==
    LET s1 == [s EXCEPT !.activeMatchIndex = index, !.cachedChunks = <<>>]
    IN  IF index >= 0 /\ index < Len(s.searchMatches)
        THEN scrollToLine([s1 EXCEPT !.pendingScrollToMatch = TRUE],
                          s.searchMatches[index + 1] + 1, "sched")
        ELSE scheduleRender(s1)

clearSearchHighlights(s) ==
    [s EXCEPT !.searchMatches = <<>>,
              !.activeMatchIndex = -1,
              !.linesContainer.marks = <<>>,
              !.linesContainer.active = -1,
              !.cachedChunks = <<>>]

suppressRender(s, suppress) == [s EXCEPT !.renderSuppressed = suppress]

\* the 1-based line at the centre of the viewport
getCurrentLine(s) ==
    IF s.currentFileId = 0 \/ s.totalLines = 0 THEN s.currentLine
    ELSE LET r == getScrollRatio(s)
             \* first child whose bottom is below the centre of the viewport
             i == Max(0, Floor(s.clientHeight + 2 * (s.scrollTop - s.spacerTop),
                               2 * s.lineHeight))
             centerLine == Floor((2 * s.scrollTop + s.clientHeight) * r[2],
                                 2 * s.lineHeight * r[1]) + 1
         IN  IF i < s.linesContainer.n
             THEN Max(1, Min(s.renderedStartLine + i + 1, s.totalLines))
             ELSE Max(1, Min(centerLine, s.totalLines))

----------------------------------------------------------------------------
(* One display frame *)

RunEntry(s, e) ==
    CASE e.k = "render" ->
            renderVisibleLines([s EXCEPT !.scrollRAF = "none"], e.force, RafOwner)
      [] e.k = "jump1" ->
            [s EXCEPT !.rafQueue = Append(@, RafEntry("jump2", FALSE, e.line, e.after))]
      [] e.k = "jump2" -> JumpStep3(s, e.line, e.after)
      [] e.k = "load" -> LoadCont(s)

RECURSIVE RunRaf(_)
RunRaf(s) ==
    IF s.rafCur = <<>> THEN s
    ELSE RunRaf(RunEntry([s EXCEPT !.rafCur = Tail(@)], Head(s.rafCur)))

\* the scroll event first, then the callbacks registered before the frame
RunFrame(s) ==
    LET s1 == IF s.scrollEvt THEN onScroll([s EXCEPT !.scrollEvt = FALSE]) ELSE s
    IN  RunRaf([s1 EXCEPT !.rafCur = s1.rafQueue, !.rafQueue = <<>>])

----------------------------------------------------------------------------
(* Edit Bridge *)

\* startLineEdit on the element of the tracked line
startLineEdit(s) ==
    IF s.isEditing THEN s
    ELSE [s EXCEPT !.isEditing = TRUE,
                   !.editingLineIndex = TrackedLine,
                   !.linesContainer.txt = s.linesContainer.orig,
                   !.edit = <<[orig |-> s.linesContainer.orig, attached |-> TRUE]>>]

ShowText(s, e, text) ==
    IF e.attached THEN [s EXCEPT !.linesContainer.txt = text] ELSE s

\* finishEdit up to `await invoke('replace_line')': the element holds newText
finishEdit(s, e, newText) ==
    LET s1 == [ShowText(s, e, newText) EXCEPT !.isEditing = FALSE, !.edit = <<>>]
    IN  IF newText # e.orig
        THEN [s1 EXCEPT !.commits = Append(@, [doc |-> s.currentFileId,
                                               new |-> newText, orig |-> e.orig,
                                               attached |-> e.attached])]
        ELSE [s1 EXCEPT !.editingLineIndex = -1]

\* finishEdit after replace_line resolved
CommitDone(s, c) ==
    [scheduleRender([s EXCEPT !.cachedChunks = <<>>,
                              !.modified = @ + 1])
       EXCEPT !.editingLineIndex = -1]

\* the failure path invalidates and schedules like the success path
CommitFailedInvalidates(s, c) ==
    [scheduleRender([ShowText(s, c, c.orig) EXCEPT !.cachedChunks = <<>>])
       EXCEPT !.editingLineIndex = -1]

\* finishEdit after replace_line failed
CommitFailed(s, c) ==
    [ShowText(s, c, c.orig) EXCEPT !.editingLineIndex = -1]

\* undo and redo up to `await invoke': k is "undo" or "redo"
undo(s, k) ==
    IF s.currentFileId = 0 THEN s
    ELSE [s EXCEPT !.undoReqs = Append(@, [doc |-> s.currentFileId])]

\* undo and redo after the store has rolled back or forward
UndoDone(s, u) ==
    refreshContent([s EXCEPT !.cachedChunks = <<>>], "modified")

\* a failure that is handled like a success
UndoFailedRefreshes(s, u) == UndoDone(s, u)

\* undo and redo after the store has refused
UndoFailed(s, u) == s

Remove(q, i) == [j \in 1..(Len(q) - 1) |-> IF j < i THEN q[j] ELSE q[j + 1]]

----------------------------------------------------------------------------
(* Initial state: the module's initial values, after init() *)

\* the store holds documents of `lines' lines, a line measures `lh' pixels
Start(lines, lh) ==
    /\ currentFileId = 0
    /\ totalLines = 0
    /\ lineHeight = lh
    /\ renderedStartLine = -1
    /\ renderedEndLine = -1
    /\ currentLine = 0
    /\ isEditing = FALSE
    /\ editingLineIndex = -1
    /\ cachedChunks = <<>>
    /\ scrollRAF = "none"
    /\ renderGeneration = 0
    /\ isRendering = FALSE
    /\ pendingRender = FALSE
    /\ renderSuppressed = FALSE
    /\ lastScrollTop = 0
    /\ scrollTop = 0
    /\ clientHeight \in ViewHeights
    /\ spacerTop = 0
    /\ spacerBottom = 0
    /\ linesContainer = NoLines
    /\ inflight = <<>>
    /\ rafQueue = <<>>
    /\ scrollEvt = FALSE
    /\ totalReqs = <<>>
    /\ edit = <<>>
    /\ commits = <<>>
    /\ undoReqs = <<>>
    /\ searchMatches = <<>>
    /\ activeMatchIndex = -1
    /\ pendingScrollToMatch = FALSE
    /\ style = [fontSize |-> DEFAULT_FONT_SIZE, measured |-> lh]
    /\ storeLines = [d \in Docs |-> lines[d]]
    /\ storeText = [d \in Docs |-> 0]
    /\ modified = 0
    /\ lineChanges = <<>>
    /\ ops = 0
    /\ trace = <<>>
    /\ hist = [act |-> "Init", arg |-> 0, jump |-> 0, failed |-> FALSE,
               epoch |-> 0, shown |-> 0, quiet |-> FALSE, loadGen |-> -1,
               undone |-> FALSE, ev |-> "Init", sup |-> FALSE,
               list |-> <<>>, moved |-> FALSE, owed |-> FALSE]

Init == Start(InitialLines, INITIAL_LINE_HEIGHT) /\ content = NoContent

----------------------------------------------------------------------------
(* Steps *)

\* an external event: it counts against the budget of the specification
Event(s, act) ==
    [s EXCEPT !.ops = @ + 1, !.hist.act = act, !.hist.ev = act,
              !.hist.arg = 0, !.hist.jump = 0,
              !.hist.quiet = FALSE, !.hist.undone = FALSE,
              !.hist.moved = FALSE]

\* a step of the environment or of the scheduler
Internal(s, act, arg) ==
    [s EXCEPT !.hist.act = act, !.hist.arg = arg, !.hist.moved = FALSE]

LoadFile(d, pos) ==
    Set(loadFile([Event(S, "LoadFile") EXCEPT !.hist.loadGen = renderGeneration],
                 d, storeLines[d], pos))

\* the user scrolls to offset v
Scroll(v) ==
    /\ Max(0, Min(v, MaxScrollTop(S))) # scrollTop
    /\ Set(SetScrollTop(Event(S, "Scroll"), v))

ScrollToLine(n) ==
    LET s == Event(S, "ScrollToLine")
    IN  Set(scrollToLine([s EXCEPT !.hist.jump = IF n >= 1 /\ n <= totalLines
                                                 THEN n ELSE 0,
                                   !.hist.arg = n,
                                   !.hist.failed = FALSE], n, "none"))

ScrollToLineTop(n, snap) ==
    Set(scrollToLineTop([Event(S, "ScrollToLineTop") EXCEPT !.hist.arg = n], n, snap))

SetSearchMatches(matches, activeIndex) ==
    /\ currentFileId # 0
    /\ Set(setSearchMatches([Event(S, "SetSearchMatches")
                               EXCEPT !.hist.arg = activeIndex, !.hist.list = matches],
                            matches, activeIndex))

SetActiveMatch(index) ==
    /\ currentFileId # 0
    /\ Set(setActiveMatch([Event(S, "SetActiveMatch") EXCEPT !.hist.arg = index,
                                                             !.hist.failed = FALSE],
                          index))

ClearSearchHighlights ==
    /\ searchMatches # <<>>
    /\ Set(clearSearchHighlights(Event(S, "ClearSearchHighlights")))

SuppressRender(suppress) ==
    /\ currentFileId # 0
    /\ renderSuppressed # suppress
    /\ Set(suppressRender([Event(S, "SuppressRender")
                             EXCEPT !.hist.sup = @ \/ suppress], suppress))

\* what a test line measures after a font change: nothing while the editor is
\* not laid out
Measures(size) ==
    IF currentFileId = 0 THEN {0}
    ELSE {IF size > 0 THEN Ceil(size * 3, 2) ELSE INITIAL_LINE_HEIGHT}

UpdateFontSize(size, measured) ==
    Set(updateFontSize([Event(S, "UpdateFontSize") EXCEPT !.hist.arg = size],
                       size, measured))

RefreshContent ==
    Set(refreshContent(Event(S, "RefreshContent"), "none"))

\* renderLines builds the lines 0 and 1 for the matches and the active index
RenderLines ==
    /\ content.nodes = <<>>
    /\ content' = [content EXCEPT !.nodes =
                      [i \in 1..Len(LineTexts) |->
                          lineContent(LineTexts[i], content.matches, i - 1,
                                      content.active)]]
    /\ UNCHANGED <<currentFileId, totalLines, lineHeight, renderedStartLine,
                   renderedEndLine, currentLine, isEditing, editingLineIndex,
                   cachedChunks, scrollRAF, renderGeneration, isRendering,
                   pendingRender, renderSuppressed, lastScrollTop, scrollTop,
                   clientHeight, spacerTop, spacerBottom, linesContainer, inflight,
                   rafQueue, scrollEvt, totalReqs, edit, commits, undoReqs,
                   searchMatches, activeMatchIndex, pendingScrollToMatch, style,
                   storeLines, storeText, modified, lineChanges, ops, trace, hist>>

\* the last tab is closed
Clear ==
    /\ currentFileId # 0
    /\ Set(clear(Event(S, "Clear")))

Resize(h) ==
    Set(onResize(Relayout([Event(S, "Resize") EXCEPT !.clientHeight = h])))

\* double click on the tracked line
StartEdit ==
    /\ linesContainer.txt # NoText
    /\ ~isEditing
    /\ Set(startLineEdit(Event(S, "StartEdit")))

\* the edited element loses focus holding newText (Escape: the original text)
FinishEdit(newText) ==
    /\ edit # <<>>
    /\ Set(finishEdit(Internal(S, "FinishEdit", newText), edit[1], newText))

Frame ==
    /\ scrollEvt \/ rafQueue # <<>>
    /\ Set(RunFrame(Internal(S, "Frame", 0)))

\* get_text_chunk resolves
FetchOk(i) ==
    /\ i \in 1..Len(inflight)
    /\ LET f == inflight[i]
           chunk == ChunkOf(S, f)
           s1 == [Internal(S, "FetchOk", i)
                    EXCEPT !.inflight = Remove(@, i),
                           !.cachedChunks = StoreChunk(@, chunk)]
       IN  Set(IF f.pass = <<>> THEN s1 ELSE RenderFinish(s1, f.pass[1], <<chunk>>))

\* nothing is scheduled, executing or awaited, except prefetches
Rest(s) ==
    /\ ~s.isRendering /\ ~s.pendingRender /\ s.scrollRAF = "none"
    /\ s.rafQueue = <<>> /\ ~s.scrollEvt
    /\ s.totalReqs = <<>> /\ s.commits = <<>> /\ s.undoReqs = <<>>

\* get_text_chunk rejects
FetchFail(i) ==
    /\ i \in 1..Len(inflight)
    /\ LET f == inflight[i]
           s1 == [Internal(S, "FetchFail", i)
                    EXCEPT !.inflight = Remove(@, i),
                           !.hist.failed = TRUE]
           s2 == IF f.pass = <<>> THEN s1 ELSE RenderFinish(s1, f.pass[1], <<>>)
       IN  Set([s2 EXCEPT !.hist.quiet = (f.pass # <<>> /\ Rest(s2))])

\* get_total_lines resolves
TotalOk(i) ==
    /\ i \in 1..Len(totalReqs)
    /\ LET r == totalReqs[i]
           s1 == [Internal(S, "TotalOk", i) EXCEPT !.totalReqs = Remove(@, i)]
       IN  Set(RefreshCont(s1, storeLines[r.doc], r.after))

\* get_total_lines rejects
TotalFail(i) ==
    /\ i \in 1..Len(totalReqs)
    /\ Set(AfterRefresh([Internal(S, "TotalFail", i)
                            EXCEPT !.totalReqs = Remove(@, i),
                                   !.hist.failed = TRUE],
                         totalReqs[i].after))

\* the requests for the tracked line that the store may already have served
Unserved(d) ==
    {i \in 1..Len(inflight) :
        /\ inflight[i].txt = Live
        /\ inflight[i].doc = d
        /\ inflight[i].s <= TrackedLine /\ TrackedLine < inflight[i].e}

\* replace_line resolves; the requests in `served' were answered before it
CommitOk(i, served) ==
    /\ i \in 1..Len(commits)
    /\ commits[i].doc \in Docs
    /\ LET c == commits[i]
           s1 == [Internal(S, "CommitOk", i)
                    EXCEPT !.commits = Remove(@, i),
                           !.storeText[c.doc] = c.new,
                           !.hist.epoch = @ + 1,
                           !.inflight = [j \in 1..Len(inflight) |->
                                IF j \in served
                                THEN [inflight[j] EXCEPT !.txt = storeText[c.doc]]
                                ELSE inflight[j]]]
       IN  Set(CommitDone(s1, c))

\* replace_line rejects
CommitFail(i) ==
    /\ i \in 1..Len(commits)
    /\ LET c == commits[i]
       IN  Set(CommitFailed([Internal(S, "CommitFail", i)
                               EXCEPT !.commits = Remove(@, i)], c))

Undo(k) ==
    Set(undo(Event(S, "Undo"), k))

\* the store rolls the document back or forward to text x and n lines; the requests
\* in `served' were answered before it
UndoOk(i, x, n, served) ==
    /\ i \in 1..Len(undoReqs)
    /\ LET u == undoReqs[i]
           s1 == [Internal(S, "UndoOk", i)
                    EXCEPT !.undoReqs = Remove(@, i),
                           !.storeText[u.doc] = x,
                           !.storeLines[u.doc] = n,
                           !.hist.epoch = @ + 1,
                           !.hist.undone = TRUE,
                           !.hist.failed = FALSE,
                           !.inflight = [j \in 1..Len(inflight) |->
                                IF j \in served
                                THEN [inflight[j] EXCEPT !.txt = storeText[u.doc],
                                                         !.cnt = storeLines[u.doc]]
                                ELSE inflight[j]]]
       IN  Set(UndoDone(s1, u))

\* the store refuses the undo or redo
UndoFail(i) ==
    /\ i \in 1..Len(undoReqs)
    /\ Set(UndoFailed([Internal(S, "UndoFail", i) EXCEPT !.undoReqs = Remove(@, i)],
                      undoReqs[i]))

\* the promises of the store resolve, the display refreshes
Async ==
    \/ Frame
    \/ \E i \in 1..Len(inflight) : FetchOk(i)
    \/ \E i \in 1..Len(inflight) : FetchFail(i)
    \/ \E i \in 1..Len(totalReqs) : TotalOk(i)
    \/ \E i \in 1..Len(totalReqs) : TotalFail(i)

----------------------------------------------------------------------------
(* Specification of the render scheduler: scrolls, jumps, loads, refreshes *)

Next ==
    \/ ops < MaxOps /\ \E o \in Openings : LoadFile(o[1], o[2])
    \/ ops < MaxOps /\ \E v \in ScrollStops : Scroll(v)
    \/ ops < MaxOps /\ \E n \in JumpLines : ScrollToLine(n)
    \/ ops < MaxOps /\ RefreshContent
    \/ ops < MaxOps /\ \E h \in ViewHeights : Resize(h)
    \/ Async

Spec == Init /\ [][Next]_vars

----------------------------------------------------------------------------
(* Specification of the edit bridge: one short document, edits and refreshes *)

NextEdit ==
    \/ ops < MaxEditOps /\ ops = 0 /\ LoadFile(1, 0)
    \/ ops < MaxEditOps /\ ops > 0 /\ RefreshContent
    \/ ops < MaxEditOps /\ ops > 0 /\ \E h \in ViewHeights : Resize(h)
    \/ ops < MaxEditOps /\ StartEdit
    \/ \E x \in Texts : FinishEdit(x)
    \/ \E i \in 1..Len(commits) : \E served \in SUBSET Unserved(commits[i].doc) :
            CommitOk(i, served)
    \/ \E i \in 1..Len(commits) : CommitFail(i)
    \/ Async

SpecEdit == Init /\ [][NextEdit]_vars

(* Specification of undo and redo on document 1 *)

\* the line counts the store may report after a roll back or forward
Rolled(d) == {storeLines[d], InitialLines[d] - 1}

NextUndo ==
    \/ ops = 0 /\ LoadFile(1, 0)
    \/ ops > 0 /\ ops < MaxUndoOps /\ \E k \in {"undo", "redo"} : Undo(k)
    \/ ops > 0 /\ ops < MaxUndoOps /\ \E h \in ViewHeights : Resize(h)
    \/ \E i \in 1..Len(undoReqs) :
          \E x \in Texts, n \in Rolled(undoReqs[i].doc) :
             \E served \in SUBSET Unserved(undoReqs[i].doc) : UndoOk(i, x, n, served)
    \/ \E i \in 1..Len(undoReqs) : UndoFail(i)
    \/ Async

SpecUndo == Init /\ [][NextUndo]_vars

(* Specification of a shrinking document: document 2 is read and then rolled
   back to fewer lines *)

\* the line counts the store may report for document 2 after a roll back
ShrunkLines == {200, 9999}

NextShrink ==
    \/ ops = 0 /\ LoadFile(2, 0)
    \/ ops > 0 /\ ops < MaxShrinkOps /\ \E v \in ScrollStops : Scroll(v)
    \/ ops > 0 /\ ops < MaxShrinkOps /\ Undo("undo")
    \/ \E i \in 1..Len(undoReqs) : \E n \in ShrunkLines : UndoOk(i, 0, n, {})
    \/ Frame
    \/ \E i \in 1..Len(inflight) : FetchOk(i)
    \/ \E i \in 1..Len(totalReqs) : TotalOk(i)

SpecShrink == Init /\ [][NextShrink]_vars

----------------------------------------------------------------------------
(* Specification of the search: matches, the active match, suppression *)

NextSearch ==
    \/ ops < MaxSearchOps /\ \E d \in SearchDocs : LoadFile(d, 0)
    \/ ops < MaxSearchOps /\ \E m \in MatchLists, a \in {-1, 0} :
         SetSearchMatches(m, a)
    \/ ops < MaxSearchOps /\ \E i \in ActiveIndexes : SetActiveMatch(i)
    \/ ops < MaxSearchOps /\ ClearSearchHighlights
    \/ ops < MaxSearchOps /\ \E b \in BOOLEAN : SuppressRender(b)
    \/ Frame
    \/ \E i \in 1..Len(inflight) : FetchOk(i)

SpecSearch == Init /\ [][NextSearch]_vars

----------------------------------------------------------------------------
(* Specification of the highlighting: two lines are built for every list of
   at most MaxMatches matches and every active index *)

RECURSIVE MatchListsUpTo(_)
MatchListsUpTo(n) ==
    IF n = 0 THEN {<<>>}
    ELSE LET shorter == MatchListsUpTo(n - 1)
         IN  shorter \cup {Append(l, m) : l \in {x \in shorter : Len(x) = n - 1},
                                          m \in MatchSpans}

InitHighlight ==
    /\ Start(InitialLines, INITIAL_LINE_HEIGHT)
    /\ clientHeight = 600
    /\ \E l \in MatchListsUpTo(MaxMatches), a \in -1..MaxMatches :
          content = [matches |-> l, active |-> a, nodes |-> <<>>]

NextHighlight == RenderLines

SpecHighlight == InitHighlight /\ [][NextHighlight]_vars

----------------------------------------------------------------------------
(* Specification of the state changes: every operation that changes what is
   to be displayed, on one short document, with rendering suppressed and
   released.  The model does not follow the program beyond a line height
   below 1. *)

NextChange ==
    \/ lineHeight >= 1 /\ ops < MaxChangeOps /\ LoadFile(1, 0)
    \/ lineHeight >= 1 /\ ops < MaxChangeOps /\ Clear
    \/ lineHeight >= 1 /\ ops < MaxChangeOps /\ \E size \in FontSizes :
         \E m \in Measures(size) : UpdateFontSize(size, m)
    \/ lineHeight >= 1 /\ ops < MaxChangeOps /\ \E v \in ScrollStops : Scroll(v)
    \/ lineHeight >= 1 /\ ops < MaxChangeOps /\ \E h \in ViewHeights : Resize(h)
    \/ lineHeight >= 1 /\ ops < MaxChangeOps /\ \E b \in BOOLEAN : SuppressRender(b)
    \/ lineHeight >= 1 /\ ops < MaxChangeOps /\ \E n \in JumpLines : ScrollToLine(n)
    \/ lineHeight >= 1 /\ ops < MaxChangeOps /\ currentFileId # 0 /\ RefreshContent
    \/ lineHeight >= 1 /\ ops < MaxChangeOps /\ SetSearchMatches(<<0, 0>>, 0)
    \/ lineHeight >= 1 /\ ops < MaxChangeOps /\ StartEdit
    \/ lineHeight >= 1 /\ \E x \in Texts : FinishEdit(x)
    \/ lineHeight >= 1 /\ \E i \in 1..Len(commits) : CommitOk(i, {})
    \/ lineHeight >= 1 /\ \E i \in 1..Len(commits) : CommitFail(i)
    \/ lineHeight >= 1 /\ Async

SpecChange == Init /\ [][NextChange]_vars

----------------------------------------------------------------------------
(* Specification of the geometry: large documents, measured line heights *)

InitGeom == (\E lh \in LineHeights : Start(GeomLines, lh)) /\ content = NoContent

NextGeom ==
    \/ ops = 0 /\ \E d \in Docs : LoadFile(d, 0)
    \/ ops > 0 /\ ops < MaxGeomOps /\ \E n \in TopLines, snap \in Snaps :
         ScrollToLineTop(n, snap)
    \/ ops > 0 /\ ops < MaxGeomOps /\ \E v \in GeomStops : Scroll(v)
    \/ Frame
    \/ \E i \in 1..Len(inflight) : FetchOk(i)

SpecGeom == InitGeom /\ [][NextGeom]_vars

----------------------------------------------------------------------------
(* Specification of the chunk store *)

\* Reading downwards through document 2: the reader scrolls on by ScrollStep once the
\* scheduler has come to rest (a prefetch may still be in flight once the store is
\* nearly full); one fetch may fail, and once the store has filled up the reader may
\* scroll back or the content may be refreshed
Settled ==
    /\ ~isRendering /\ scrollRAF = "none" /\ rafQueue = <<>> /\ ~scrollEvt
    /\ totalReqs = <<>>
    /\ inflight = <<>> \/ (Len(inflight) = 1 /\ Len(cachedChunks) >= CACHE_LIMIT - 1)

NextCache ==
    \/ ops = 0 /\ LoadFile(2, 0)
    \/ ops > 0 /\ ops < MaxCacheOps /\ Settled /\ Scroll(scrollTop + ScrollStep)
    \/ ops > 0 /\ ops < MaxCacheOps /\ Settled /\ Len(cachedChunks) > CACHE_LIMIT
          /\ RefreshContent
    \/ ops > 0 /\ ops < MaxCacheOps /\ Settled /\ Len(cachedChunks) >= CACHE_LIMIT
          /\ Scroll(scrollTop - ScrollStep)
    \/ Frame
    \/ \E i \in 1..Len(inflight) : FetchOk(i)
    \/ \E i \in 1..Len(inflight) : ~hist.failed /\ FetchFail(i)
    \/ \E i \in 1..Len(totalReqs) : TotalOk(i)

InitCache == Init /\ clientHeight = 600

SpecCache == InitCache /\ [][NextCache]_vars

----------------------------------------------------------------------------
(* Properties *)

\* the requests a render pass is suspended on
RenderFetches == {i \in 1..Len(inflight) : inflight[i].pass # <<>>}

AtRest == Rest(S) /\ inflight = <<>>

Rendered(e) == e.res = "rendered"

\* C1: at most one render pass is suspended on its fetch, the busy flag is set while
\* it is, and a call of the render routine made while the flag is set does nothing
\* but record the request (no range, no fetch, no write of the rendered range)
C1_OneRenderBody ==
    /\ Cardinality(RenderFetches) <= 1
    /\ RenderFetches # {} => isRendering
    /\ \A k \in 1..Len(trace) : trace[k].busy => trace[k].res \in {"busy", "nofile"}

C1_Witness ==
    /\ RenderFetches # {}
    /\ pendingRender
    /\ \E k \in 1..Len(trace) : trace[k].busy /\ trace[k].res = "busy"

\* C2: when the fetch of a pass resolves and the generation is no longer the one the
\* pass captured, the rendered range, the lines and both spacers stay as they were
C2_StaleDiscarded ==
    [][(/\ hist'.act = "FetchOk"
        /\ hist'.arg \in RenderFetches
        /\ inflight[hist'.arg].pass[1].gen # renderGeneration)
       => /\ renderedStartLine' = renderedStartLine
          /\ renderedEndLine' = renderedEndLine
          /\ linesContainer' = linesContainer
          /\ spacerTop' = spacerTop
          /\ spacerBottom' = spacerBottom]_vars

C2_Witness ==
    /\ hist.act = "FetchOk"
    /\ \E k \in 1..Len(trace) : trace[k].res = "stale"
    /\ linesContainer.n > 0

\* C3: once everything has resolved without a failure and the scheduler is idle, the
\* materialized window contains the target line of the most recent jump
C3_LatestRequestShown ==
    (hist.jump > 0 /\ ~hist.failed /\ AtRest)
    => (renderedStartLine <= hist.jump - 1 /\ hist.jump - 1 < renderedEndLine)

\* C4 as stated: the window of every successful pass covers
\* [firstVisible, firstVisible + visibleCount)
C4_VisibleInsideWindow ==
    \A k \in 1..Len(trace) :
        Rendered(trace[k]) =>
            /\ trace[k].s <= trace[k].fv
            /\ trace[k].e >= trace[k].fv + trace[k].vc

\* C4 amended: the window of every successful pass starts at or before the first
\* visible line and ends at or after the last visible line of the document, that
\* is firstVisible + visibleCount cut to the line count the pass used; the rendered
\* range is that window
C4_VisibleLinesInsideWindow ==
    /\ \A k \in 1..Len(trace) :
            Rendered(trace[k]) =>
                /\ trace[k].s <= trace[k].fv
                /\ trace[k].e >= Min(trace[k].total, trace[k].fv + trace[k].vc)
    /\ (trace # <<>> /\ Rendered(trace[Len(trace)])) =>
            /\ renderedStartLine = trace[Len(trace)].s
            /\ renderedEndLine = trace[Len(trace)].e

C4_Witness ==
    \E k \in 1..Len(trace) :
        /\ Rendered(trace[k])
        /\ trace[k].total < trace[k].fv + trace[k].vc
        /\ renderedEndLine = trace[k].total

\* C5 as stated: the chunk store never holds more entries than its capacity
C5_StoreWithinCapacity == Len(cachedChunks) <= CACHE_LIMIT

CacheKeys(q) == [i \in 1..Len(q) |-> <<q[i].s, q[i].e>>]

IsPrefix(a, b) == Len(a) <= Len(b) /\ SubSeq(b, 1, Len(a)) = a

\* C6: in every step the store is either emptied by an invalidation, or keeps all its
\* entries in their order (an insert appends), or an insert of a fetched chunk into
\* a store at capacity removes exactly the entry inserted earliest and nothing else;
\* a render served from the store leaves the store and its order as they were
C6_FifoEviction ==
    [][/\ \/ cachedChunks' = <<>> /\ hist'.act # "FetchOk"
          \/ IsPrefix(CacheKeys(cachedChunks), CacheKeys(cachedChunks'))
          \/ /\ hist'.act = "FetchOk"
             /\ Len(cachedChunks) >= CACHE_LIMIT
             /\ IsPrefix(CacheKeys(Tail(cachedChunks)), CacheKeys(cachedChunks'))
             /\ Len(cachedChunks') <= Len(cachedChunks)
       /\ (hist'.act = "Frame" /\ \E k \in 1..Len(trace') : trace'[k].res = "hit")
            => cachedChunks' = cachedChunks]_vars

\* an eviction has happened: the store is full and the first window is gone
C6_Witness ==
    /\ hist.act = "FetchOk"
    /\ Len(cachedChunks) > CACHE_LIMIT
    /\ cachedChunks[1].s > 0

\* C7: a frame whose only render call is not forced and finds the viewport inside
\* the materialized window (both margins at least the re-render margin, or the
\* recomputed range equal to the rendered one) issues no fetch and leaves the
\* rendered range, the lines and the cache as they were
C7_InsideWindowIsNoOp ==
    [][(/\ hist'.act = "Frame"
        /\ Len(trace') = 1
        /\ ~trace'[1].force
        /\ trace'[1].res \notin {"nofile", "busy"}
        /\ \/ /\ renderedStartLine >= 0
              /\ trace'[1].fv - renderedStartLine >= RERENDER_MARGIN
              /\ renderedEndLine - (trace'[1].fv + trace'[1].vc) >= RERENDER_MARGIN
           \/ /\ trace'[1].s = renderedStartLine
              /\ trace'[1].e = renderedEndLine)
       => /\ inflight' = inflight
          /\ renderedStartLine' = renderedStartLine
          /\ renderedEndLine' = renderedEndLine
          /\ linesContainer' = linesContainer
          /\ cachedChunks' = cachedChunks]_vars

C7_Witness ==
    /\ hist.act = "Frame"
    /\ Len(trace) = 1
    /\ ~trace[1].force
    /\ trace[1].res = "margin"
    /\ trace[1].fv - renderedStartLine >= RERENDER_MARGIN
    /\ scrollTop # 0

\* C8 as stated: every successful commit raises one on-modified, and lines
\* materialized by a pass that started after the last successful commit show the
\* text the store holds
C8_EditShownOnNextRender ==
    /\ modified = hist.epoch
    /\ (linesContainer.orig # NoText /\ hist.shown = hist.epoch)
         => linesContainer.orig = storeText[linesContainer.doc]

\* C9: a failed replace_line restores the text of the edited element and changes
\* neither the cache, the notifications, the generation nor the schedule; a commit
\* of the unchanged text sends nothing and changes none of them either
C9_FailedCommitReverts ==
    [][/\ (hist'.act = "CommitFail" /\ hist'.arg \in 1..Len(commits)) =>
            /\ cachedChunks' = cachedChunks
            /\ modified' = modified
            /\ renderGeneration' = renderGeneration
            /\ scrollRAF' = scrollRAF
            /\ rafQueue' = rafQueue
            /\ inflight' = inflight
            /\ storeText' = storeText
            /\ renderedStartLine' = renderedStartLine
            /\ renderedEndLine' = renderedEndLine
            /\ linesContainer' =
                 IF commits[hist'.arg].attached
                 THEN [linesContainer EXCEPT !.txt = commits[hist'.arg].orig]
                 ELSE linesContainer
       /\ (hist'.act = "FinishEdit" /\ edit # <<>> /\ hist'.arg = edit[1].orig) =>
            /\ commits' = commits
            /\ cachedChunks' = cachedChunks
            /\ modified' = modified
            /\ renderGeneration' = renderGeneration
            /\ scrollRAF' = scrollRAF
            /\ rafQueue' = rafQueue
            /\ inflight' = inflight
            /\ storeText' = storeText]_vars

C9_Witness ==
    /\ hist.act = "CommitFail"
    /\ linesContainer.txt # NoText
    /\ linesContainer.txt = linesContainer.orig
    /\ cachedChunks # <<>>
    /\ modified = 0

\* C10: when the fetch of a pass fails, nothing is cached, the rendered range and the
\* lines stay, the busy flag is cleared, no fetch is issued, a frame is scheduled only
\* for a request recorded as pending during the pass; and from an idle scheduler no
\* fetch is issued until the next external event
C10_FailedFetchAborts ==
    [][/\ (hist'.act = "FetchFail" /\ hist'.arg \in RenderFetches) =>
            /\ cachedChunks' = cachedChunks
            /\ renderedStartLine' = renderedStartLine
            /\ renderedEndLine' = renderedEndLine
            /\ linesContainer' = linesContainer
            /\ ~isRendering'
            /\ inflight' = Remove(inflight, hist'.arg)
            /\ \/ scrollRAF' = scrollRAF /\ ~pendingRender
               \/ scrollRAF' = "scroll" /\ pendingRender
            /\ ~pendingRender'
       /\ (hist.quiet /\ hist'.quiet) => Len(inflight') <= Len(inflight)]_vars

C10_Witness ==
    /\ hist.act = "FetchFail"
    /\ hist.quiet
    /\ \E k \in 1..Len(trace) : trace[k].res = "failed"
    /\ renderedStartLine >= 0

\* C17: a jump to a line below 1 or above the line count is ignored: the current
\* line, the scroll offset, the generation, the rendered range and the cache stay,
\* no on-line-change notification is raised, no fetch is issued, no frame requested
C17_InvalidJumpIgnored ==
    [][(hist'.act = "ScrollToLine" /\ (hist'.arg < 1 \/ hist'.arg > totalLines))
       => /\ currentLine' = currentLine
          /\ scrollTop' = scrollTop
          /\ scrollEvt' = scrollEvt
          /\ renderGeneration' = renderGeneration
          /\ renderedStartLine' = renderedStartLine
          /\ renderedEndLine' = renderedEndLine
          /\ cachedChunks' = cachedChunks
          /\ lineChanges' = lineChanges
          /\ inflight' = inflight
          /\ rafQueue' = rafQueue
          /\ pendingRender' = pendingRender]_vars

C17_Witness ==
    /\ hist.act = "ScrollToLine"
    /\ totalLines > 0
    /\ hist.arg > totalLines
    /\ currentLine # hist.arg
    /\ renderedStartLine >= 0

\* C11: when the store refuses an undo or redo nothing changes: the cache, the line
\* count, the generation, the rendered range and the lines stay, no render call is
\* made, no request is sent, no frame is requested, no on-modified is raised
C11_FailedUndoChangesNothing ==
    [][(hist'.act = "UndoFail")
       => /\ cachedChunks' = cachedChunks
          /\ totalLines' = totalLines
          /\ renderGeneration' = renderGeneration
          /\ renderedStartLine' = renderedStartLine
          /\ renderedEndLine' = renderedEndLine
          /\ linesContainer' = linesContainer
          /\ trace' = <<>>
          /\ isRendering' = isRendering
          /\ pendingRender' = pendingRender
          /\ inflight' = inflight
          /\ totalReqs' = totalReqs
          /\ rafQueue' = rafQueue
          /\ scrollRAF' = scrollRAF
          /\ modified' = modified]_vars

C11_Witness ==
    /\ hist.act = "UndoFail"
    /\ cachedChunks # <<>>
    /\ linesContainer.n > 0
    /\ modified = 0

\* C12 as stated: once a successful undo or redo and everything it started have
\* resolved without a failure, the lines on display are the lines of the store after
\* the roll back: the reloaded line count and the text the store holds
C12_UndoRendersStoreContent ==
    (hist.undone /\ ~hist.failed /\ AtRest /\ currentFileId # 0)
    => /\ totalLines = storeLines[currentFileId]
       /\ renderedEndLine = Min(totalLines, renderedEndLine)
       /\ linesContainer.doc = currentFileId
       /\ linesContainer.n = renderedEndLine - renderedStartLine
       /\ linesContainer.orig = storeText[currentFileId]

----------------------------------------------------------------------------
(* Coordinate mapping *)

\* total_lines * line_height * scrollRatio, in whole pixels
VirtualHeight(s) ==
    LET r == getScrollRatio(s)
    IN  Floor(s.totalLines * s.lineHeight * r[1], r[2])

\* the offsets at which the mapping is probed in a state
Offsets(s) ==
    {0, 150, 364, s.scrollTop, VirtualHeight(s) \div 2,
     Max(0, VirtualHeight(s) - 1), VirtualHeight(s)}

\* C13: scrollRatio is exactly 1 when total_lines * line_height is at most the
\* maximum virtual height and max_height / (total_lines * line_height)
\* otherwise; so 0 < scrollRatio <= 1, the virtual height never exceeds the
\* maximum, and lineAtScrollTop is monotonically non-decreasing in the offset.
C13_ScrollRatioContract ==
    LET r == getScrollRatio(S)
        naturalHeight == totalLines * lineHeight
    IN  /\ naturalHeight <= MAX_SCROLL_HEIGHT => r = <<1, 1>>
        /\ naturalHeight > MAX_SCROLL_HEIGHT =>
             r[1] * naturalHeight = r[2] * MAX_SCROLL_HEIGHT
        /\ 0 < r[1] /\ r[1] <= r[2]
        /\ naturalHeight * r[1] <= MAX_SCROLL_HEIGHT * r[2]
        /\ \A x \in Offsets(S), y \in Offsets(S) :
             x <= y => lineAtScrollTop(S, x) <= lineAtScrollTop(S, y)

\* a compressed document scrolled away from its top
C13_Witness ==
    /\ totalLines * lineHeight > MAX_SCROLL_HEIGHT
    /\ scrollTop > 0
    /\ lineAtScrollTop(S, scrollTop) > 0

\* C14 as stated: 500000 lines of 24 pixels are compressed, the maximum
\* virtual height maps to the last line index, and every offset of
\* [0, virtual height] maps into [0, total_lines - 1].
C14_LastOffsetInRange ==
    /\ totalLines = 500000 /\ lineHeight = 24 =>
         /\ getScrollRatio(S)[1] < getScrollRatio(S)[2]
         /\ lineAtScrollTop(S, MAX_SCROLL_HEIGHT) = totalLines - 1
    /\ totalLines > 0 =>
         \A x \in Offsets(S) :
           lineAtScrollTop(S, x) >= 0 /\ lineAtScrollTop(S, x) <= totalLines - 1

\* C14: 500000 lines of 24 pixels fit under the maximum virtual height, so
\* scrollRatio is 1 and the virtual height (12,000,000) maps to total_lines;
\* every whole-pixel offset of [0, virtual height - 1] maps into
\* [0, total_lines - 1], for every document.
C14_OffsetsBelowHeightInRange ==
    /\ totalLines = 500000 /\ lineHeight = 24 =>
         /\ getScrollRatio(S) = <<1, 1>>
         /\ VirtualHeight(S) = 12000000
         /\ lineAtScrollTop(S, VirtualHeight(S)) = totalLines
    /\ totalLines > 0 =>
         \A x \in Offsets(S) :
           x < VirtualHeight(S) =>
             lineAtScrollTop(S, x) >= 0 /\ lineAtScrollTop(S, x) <= totalLines - 1

\* the document of 500000 lines of 24 pixels scrolled to its last offset
C14_Witness ==
    /\ totalLines = 500000 /\ lineHeight = 24
    /\ scrollTop = VirtualHeight(S) - clientHeight

\* C15: scrollTopForLine(lineAtScrollTop(x)) differs from x by less than one
\* compressed line height, and lineAtScrollTop(scrollTopForLine(n)) = n for
\* every line in range: a line put at the top of the viewport is the line
\* computed from the resulting offset.
C15_RoundTrip ==
    LET r == getScrollRatio(S)
    IN  /\ totalLines > 0 =>
             \A snap \in Snaps :
               Abs(scrollTopForLine(S, lineAtScrollTop(S, scrollTop) + 1, snap)
                     - scrollTop) * r[2] < lineHeight * r[1]
        /\ ( /\ hist.act = "ScrollToLineTop"
             /\ hist.arg >= 1 /\ hist.arg <= totalLines
             /\ scrollTop < MaxScrollTop(S) ) =>
             lineAtScrollTop(S, scrollTop) = hist.arg - 1

----------------------------------------------------------------------------
(* Search *)

IsRender(e) == e.k = "render"
RenderFrames(q) == SelectSeq(q, IsRender)

\* C19 as stated: setMatches replaces the match list and the active index,
\* empties the Chunk Store, increments the render generation and leaves exactly
\* one forced render frame scheduled.
C19_SetMatchesSchedulesForcedFrame ==
    [][hist'.act = "SetSearchMatches" =>
         /\ searchMatches' = hist'.list
         /\ activeMatchIndex' = hist'.arg
         /\ cachedChunks' = <<>>
         /\ renderGeneration' = renderGeneration + 1
         /\ scrollRAF' = "force"
         /\ Len(RenderFrames(rafQueue')) = 1
         /\ RenderFrames(rafQueue')[1].force]_vars

\* C19: setMatches replaces the match list and the active index and empties the
\* Chunk Store; unless rendering is suppressed it increments the render
\* generation and leaves exactly one forced render frame scheduled, replacing
\* any frame already scheduled; while rendering is suppressed the generation and
\* the scheduled frames are left as they are.
C19_SetMatchesUnlessSuppressed ==
    [][hist'.act = "SetSearchMatches" =>
         /\ searchMatches' = hist'.list
         /\ activeMatchIndex' = hist'.arg
         /\ cachedChunks' = <<>>
         /\ ~renderSuppressed =>
              /\ renderGeneration' = renderGeneration + 1
              /\ scrollRAF' = "force"
              /\ Len(RenderFrames(rafQueue')) = 1
              /\ RenderFrames(rafQueue')[1].force
         /\ renderSuppressed =>
              /\ renderGeneration' = renderGeneration
              /\ scrollRAF' = scrollRAF
              /\ rafQueue' = rafQueue]_vars

\* setMatches with a list of two matches has just scheduled its forced frame
C19_Witness ==
    /\ hist.act = "SetSearchMatches"
    /\ Len(searchMatches) = 2
    /\ activeMatchIndex = 0
    /\ ~renderSuppressed
    /\ scrollRAF = "force"

\* C20: at most one render frame is pending at any time: a scroll event while a
\* frame is scheduled schedules nothing, so a scheduled forced frame is never
\* replaced by the frame of a scroll event; a forced schedule request and the
\* re-schedule after a pending render cancel the scheduled frame before they
\* schedule their own.
C20_OneRenderFramePending ==
    LET pending == RenderFrames(rafQueue)
        forced == RenderFrames(scheduleRender(S).rafQueue)
        again == RenderFrames(Finally([S EXCEPT !.pendingRender = TRUE]).rafQueue)
    IN  /\ Len(pending) <= 1
        /\ Len(pending) = 1 <=> scrollRAF # "none"
        /\ scrollRAF = "force" => pending[1].force
        /\ scrollRAF = "scroll" => ~pending[1].force
        /\ scrollRAF # "none" => onScroll(S) = S
        /\ Len(forced) = 1 /\ forced[1].force
        /\ Len(again) = 1 /\ ~again[1].force

\* a scroll event waits for the frame while a forced frame is scheduled
C20_Witness ==
    /\ scrollRAF = "force"
    /\ scrollEvt
    /\ Len(RenderFrames(rafQueue)) = 1

\* the calls of the last step that started a render pass
PassStarts(tr) ==
    {i \in 1..Len(tr) : tr[i].res \in {"margin", "same", "hit", "fetch"}}

\* C18: loading a document leaves renderedStart = renderedEnd = -1, an empty
\* Chunk Store, an empty match list and no active match, and the render
\* generation is incremented before a render pass of the new document starts.
C18_LoadResetsViewport ==
    [][/\ hist'.act = "LoadFile" =>
            /\ renderedStartLine' = -1 /\ renderedEndLine' = -1
            /\ cachedChunks' = <<>>
            /\ searchMatches' = <<>> /\ activeMatchIndex' = -1
       /\ \A i \in PassStarts(trace') : trace'[i].gen > hist'.loadGen]_vars

\* C16: once the render pass that follows setActiveMatch(i) has completed, for a
\* match on the 0-based line L of the document, getCurrentLine() is L + 1, and
\* in the rendered lines the match of ordinal i, and no other, carries the
\* active marker.
C16_ActiveMatchIsCurrentLine ==
    ( /\ hist.ev = "SetActiveMatch"
      /\ activeMatchIndex >= 0 /\ activeMatchIndex < Len(searchMatches)
      /\ searchMatches[activeMatchIndex + 1] < totalLines
      /\ ~hist.sup /\ ~hist.failed
      /\ AtRest ) =>
        /\ getCurrentLine(S) = searchMatches[activeMatchIndex + 1] + 1
        /\ linesContainer.marks = searchMatches
        /\ linesContainer.active = activeMatchIndex
        /\ ActiveChild(S) >= 0

----------------------------------------------------------------------------
(* Pending renders, forced passes, the generation *)

\* the step is the resolution of the fetch of the executing pass
PassCompletes == hist'.act \in {"FetchOk", "FetchFail"} /\ trace' # <<>>

\* C21 as stated: a request made while a pass executes is recorded as pending
\* and not started; when the pass completes with pending set, pending is
\* cleared and exactly one non-forced render frame is scheduled.
C21_PendingRescheduledOnce ==
    [][/\ \A i \in 1..Len(trace') : trace'[i].busy => trace'[i].res = "busy"
       /\ (PassCompletes /\ pendingRender) =>
            /\ ~pendingRender' /\ ~isRendering'
            /\ scrollRAF' = "scroll"
            /\ Len(RenderFrames(rafQueue')) = 1
            /\ ~RenderFrames(rafQueue')[1].force]_vars

\* C21: a request made while a pass executes is not started: it is recorded
\* as pending, or dropped when no document with lines is open; when the pass
\* completes (success, failed fetch or stale discard) with pending set,
\* pending is cleared and, unless rendering is suppressed, exactly one
\* non-forced render frame is scheduled, replacing the scheduled one; while
\* rendering is suppressed pending is cleared and the scheduled frames are
\* left as they are.
C21_PendingRescheduledUnlessSuppressed ==
    [][/\ \A i \in 1..Len(trace') :
            trace'[i].busy => trace'[i].res \in {"busy", "nofile"}
       /\ (PassCompletes /\ pendingRender) =>
            /\ ~pendingRender' /\ ~isRendering'
            /\ ~renderSuppressed =>
                 /\ scrollRAF' = "scroll"
                 /\ Len(RenderFrames(rafQueue')) = 1
                 /\ ~RenderFrames(rafQueue')[1].force
            /\ renderSuppressed =>
                 /\ scrollRAF' = scrollRAF
                 /\ RenderFrames(rafQueue') = RenderFrames(rafQueue)]_vars

\* the fetch of a pass has failed with a request pending, one frame follows
C21_Witness ==
    /\ hist.act = "FetchFail" /\ trace # <<>>
    /\ trace[1].res = "failed"
    /\ scrollRAF = "scroll"
    /\ ~pendingRender /\ ~isRendering

\* the passes suspended on their fetch
Suspended(q) == {i \in 1..Len(q) : q[i].pass # <<>>}

\* C22: a forced render pass computes the first visible line from
\* floor(scrollTop / (line_height * scrollRatio)), is never skipped by the margin
\* check or the identical-range check, and when its fetch succeeds with the
\* generation unchanged it materializes its window.
C22_ForcedPassRenders ==
    [][/\ \A i \in 1..Len(trace') :
            trace'[i].force => trace'[i].res \notin {"margin", "same"}
       /\ \A i \in Suspended(inflight') :
            LET pass == inflight'[i].pass[1]
            IN  pass.force =>
                  pass.fv = lineAtScrollTop([totalLines |-> pass.total,
                                             lineHeight |-> lineHeight'], pass.top)
       /\ ( /\ hist'.act = "FetchOk"
            /\ hist'.arg \in Suspended(inflight)
            /\ inflight[hist'.arg].pass[1].force
            /\ inflight[hist'.arg].pass[1].gen = renderGeneration ) =>
              /\ renderedStartLine' = inflight[hist'.arg].pass[1].s
              /\ renderedEndLine' = inflight[hist'.arg].pass[1].e
              /\ linesContainer'.start = renderedStartLine'
              /\ trace'[1].res = "rendered"]_vars

\* a forced pass fetches the range that is already materialized, away from the
\* edges of the window
C22_Witness ==
    \E i \in 1..Len(trace) :
        /\ trace[i].force /\ trace[i].res = "fetch"
        /\ trace[i].s = renderedStartLine /\ trace[i].e = renderedEndLine
        /\ renderedStartLine > 0

\* the frame runs render callbacks of scroll events only
ScrollFrame ==
    /\ hist'.act = "Frame"
    /\ \A i \in 1..Len(rafQueue) : rafQueue[i].k = "render" /\ ~rafQueue[i].force

\* the frame resumes a loadFile
LoadFrame ==
    /\ hist'.act = "Frame"
    /\ \E i \in 1..Len(rafQueue) : rafQueue[i].k = "load"

\* the step is a state change that goes through scheduleRender
Rescheduling ==
    \/ hist'.act = "Resize" /\ currentFileId # 0
    \/ hist'.act \in {"UpdateFontSize", "CommitOk", "SetSearchMatches"}

\* the generation does not decrease, scrolling and the passes it triggers keep it
GenerationKept ==
    /\ renderGeneration' >= renderGeneration
    /\ (hist'.act \in {"Scroll", "FetchOk", "FetchFail"} \/ ScrollFrame) =>
         renderGeneration' = renderGeneration

\* a jump to a valid line, a refresh whose line count has arrived and the frame
\* that resumes a load increase the generation
GenerationRaised ==
    /\ (hist'.act = "ScrollToLine" /\ hist'.jump > 0) => renderGeneration' > renderGeneration
    /\ hist'.act = "TotalOk" => renderGeneration' > renderGeneration
    /\ LoadFrame => renderGeneration' > renderGeneration

\* C23 as stated: the render generation never decreases, scrolling leaves it
\* unchanged, and every other state change (resize with a document open, font
\* change, jump to a valid line, successful edit commit, setMatches, refresh,
\* load) strictly increases it.
C23_GenerationIncreases ==
    [][/\ GenerationKept
       /\ GenerationRaised
       /\ Rescheduling => renderGeneration' > renderGeneration]_vars

\* C23: the render generation never decreases and scrolling leaves it
\* unchanged; a jump to a valid line, a refresh whose line count has arrived
\* and a load (in the frame after the call) strictly increase it; a resize with
\* a document open, a font change, a successful edit commit and setMatches
\* strictly increase it unless rendering is suppressed, and leave it unchanged
\* while rendering is suppressed.
C23_GenerationIncreasesUnlessSuppressed ==
    [][/\ GenerationKept
       /\ GenerationRaised
       /\ (Rescheduling /\ ~renderSuppressed) => renderGeneration' > renderGeneration
       /\ (Rescheduling /\ renderSuppressed) => renderGeneration' = renderGeneration]_vars

\* an edit has been committed and its forced frame is scheduled
C23_Witness ==
    /\ hist.act = "CommitOk"
    /\ ~renderSuppressed
    /\ scrollRAF = "force"
    /\ renderGeneration >= 2

\* C30: the line height used by the geometry computations is at least 1 in
\* every reachable state.
C30_LineHeightAtLeastOne == lineHeight >= 1


\* C24: every range requested from the store by a render pass or a prefetch
\* satisfies 0 <= start < end <= total_lines at the time of the request, its
\* start is a multiple of 100 and its end a multiple of 100 or total_lines,
\* also after total_lines has shrunk
C24_RequestedRangesWellFormed ==
    /\ \A i \in 1..Len(trace) :
          trace[i].res \in {"hit", "fetch"}
          => /\ 0 <= trace[i].s /\ trace[i].s < trace[i].e
             /\ trace[i].e <= trace[i].total
             /\ trace[i].s % CHUNK_ALIGN = 0
             /\ trace[i].e % CHUNK_ALIGN = 0 \/ trace[i].e = trace[i].total
    /\ \A i \in 1..Len(inflight) :
          /\ 0 <= inflight[i].s /\ inflight[i].s < inflight[i].e
          /\ inflight[i].s % CHUNK_ALIGN = 0


\* the chunks stored under exactly the key (a, b)
Cached(a, b) == {i \in 1..Len(cachedChunks) :
                    cachedChunks[i].s = a /\ cachedChunks[i].e = b}

\* the fetches of render passes in flight for the range (a, b)
PassFetches(a, b) == {i \in 1..Len(inflight) :
                        /\ inflight[i].pass # <<>>
                        /\ inflight[i].s = a /\ inflight[i].e = b}

\* C25: getChunk(start, end) answers from the Chunk Store without a fetch when
\* exactly the key (start, end) is present, an overlapping cached range not
\* counting; otherwise it issues exactly one fetch for that range, and when the
\* fetch has succeeded the result is stored under that key and is the chunk
\* the pass gets
C25_GetChunkExactKey ==
    \A i \in 1..Len(trace) :
       LET t == trace[i]
       IN  /\ t.res = "hit"
              => Cached(t.s, t.e) # {} /\ PassFetches(t.s, t.e) = {}
           /\ t.res = "fetch"
              => Cached(t.s, t.e) = {} /\ Cardinality(PassFetches(t.s, t.e)) = 1
           /\ hist.act = "FetchOk" /\ t.res \in {"rendered", "stale"}
              => Cardinality(Cached(t.s, t.e)) = 1
           /\ hist.act = "FetchOk" /\ t.res = "rendered"
              => \A k \in Cached(t.s, t.e) :
                    /\ linesContainer.start = cachedChunks[k].s
                    /\ linesContainer.n = cachedChunks[k].n
                    /\ linesContainer.doc = cachedChunks[k].doc
                    /\ linesContainer.orig = cachedChunks[k].txt

\* a pass fetches its range although an overlapping range is cached
C25_Witness ==
    \E i \in 1..Len(trace) :
       /\ trace[i].res = "fetch"
       /\ \E k \in 1..Len(cachedChunks) :
             cachedChunks[k].s < trace[i].e /\ trace[i].s < cachedChunks[k].e


\* the step writes the rendered range
RangeWritten ==
    \/ renderedStartLine' # renderedStartLine
    \/ renderedEndLine' # renderedEndLine

\* the step runs the render body of a pass that holds the busy flag, either
\* resumed from its fetch or served from the Chunk Store, and the rendered
\* range is what that body wrote
WrittenByRenderBody ==
    \E i \in 1..Len(trace') :
       /\ trace'[i].res = "rendered"
       /\ renderedStartLine' = trace'[i].s
       /\ renderedEndLine' = trace'[i].e
       /\ \/ /\ i = 1
             /\ hist'.act = "FetchOk"
             /\ isRendering
             /\ inflight[hist'.arg].pass # <<>>
          \/ /\ i > 1
             /\ trace'[i - 1].res = "hit"
             /\ ~trace'[i - 1].busy

\* C26 as stated: the rendered range is written only by the render body
C26_RangeWrittenOnlyByRenderBody ==
    [][RangeWritten => WrittenByRenderBody]_vars

\* C26: the rendered range is written by the render body, while the pass holds
\* the busy flag, and reset to -1 by load and by clear, also while a pass is
\* suspended on its fetch; no other operation changes it
C26_RangeWrittenByRenderOrReset ==
    [][RangeWritten
       => \/ WrittenByRenderBody
          \/ /\ hist'.ev \in {"LoadFile", "Clear"}
             /\ hist'.act = hist'.ev
             /\ renderedStartLine' = -1
             /\ renderedEndLine' = -1]_vars

\* a load has reset the range of the lines still displayed while a pass is
\* suspended on its fetch
C26_Witness ==
    /\ hist.act = "LoadFile"
    /\ renderedStartLine = -1
    /\ linesContainer.n > 0
    /\ RenderFetches # {}
    /\ isRendering


\* the concatenation of the texts of the nodes
RECURSIVE TextOf(_)
TextOf(nodes) == IF nodes = <<>> THEN <<>> ELSE Head(nodes).text \o TextOf(Tail(nodes))

\* the matches on line lineIdx are spans inside the line that do not overlap
SpansApart(lineIdx) ==
    LET ms == content.matches
        on == {i \in 1..Len(ms) : ms[i].line = lineIdx}
    IN  /\ \A i \in on : /\ ms[i].line_char_start < ms[i].line_char_end
                         /\ ms[i].line_char_end <= Len(LineTexts[lineIdx + 1])
        /\ \A i, j \in on :
              i # j => \/ ms[i].line_char_end <= ms[j].line_char_start
                       \/ ms[j].line_char_end <= ms[i].line_char_start

\* C27: a line whose matches are non-overlapping spans inside it is built as
\* nodes in ascending order of their offsets, whose texts concatenated are the
\* text of the line, the marks being exactly the match spans; among all marks
\* of all lines a mark is the active one exactly when it shows the match whose
\* place in the list is the active index
C27_SegmentsCoverLine ==
    content.nodes # <<>>
    => /\ \A l \in 1..Len(LineTexts) :
             SpansApart(l - 1)
             => LET nodes == content.nodes[l]
                    ms == content.matches
                    on == {i \in 1..Len(ms) : ms[i].line = l - 1}
                    marks == {k \in 1..Len(nodes) : nodes[k].mark}
                IN  /\ TextOf(nodes) = LineTexts[l]
                    /\ \A k \in 1..(Len(nodes) - 1) :
                          nodes[k].from + Len(nodes[k].text) = nodes[k + 1].from
                    /\ \A k \in 1..Len(nodes) : Len(nodes[k].text) > 0
                    /\ Cardinality(marks) = Cardinality(on)
                    /\ \A i \in on : \E k \in marks :
                          /\ nodes[k].globalIdx = i - 1
                          /\ nodes[k].from = ms[i].line_char_start
                          /\ nodes[k].from + Len(nodes[k].text) = ms[i].line_char_end
       /\ \A l \in 1..Len(LineTexts) : \A k \in 1..Len(content.nodes[l]) :
             LET node == content.nodes[l][k]
             IN  node.active <=> (node.mark /\ node.globalIdx = content.active)

\* a line is built for three matches that are not listed in the order of their
\* offsets, the second of them active, next to a line with no match
C27_Witness ==
    /\ content.nodes # <<>>
    /\ Len(content.matches) = 3
    /\ \A i \in 1..3 : content.matches[i].line = 0
    /\ SpansApart(0)
    /\ content.matches[1].line_char_start > content.matches[2].line_char_start
    /\ content.active = 1
    /\ \E k \in 1..Len(content.nodes[1]) : content.nodes[1][k].active
    /\ Len(content.nodes[2]) = 1


\* C28: a render body that has no centring of a search match pending leaves
\* the scroll offset as it found it, whatever it corrects on the spacers, and
\* so raises no scroll event: hist.moved records a body that did not
C28_RenderKeepsScrollOffset == ~hist.moved


\* the requests in flight that the step has not resolved, and those it has issued
Kept == IF hist'.act \in {"FetchOk", "FetchFail"} THEN Remove(inflight, hist'.arg)
        ELSE inflight
Issued == SubSeq(inflight', Len(Kept) + 1, Len(inflight'))

\* the range a pass that rendered [a, b) prefetches
PrefetchRange(a, b, down) ==
    IF down THEN <<b, Min(totalLines', b + CHUNK_ALIGN)>>
    ELSE <<Max(0, a - CHUNK_ALIGN), a>>

\* C29: a successful pass issues at most one prefetch, for the chunk of at most
\* 100 lines next to the rendered range in the scroll direction and only when
\* that range is not empty; the busy flag is released while the prefetch is in
\* flight; a prefetch that fails changes neither the rendered range nor the lines
C29_PrefetchAfterRender ==
    [][LET rendered == {i \in 1..Len(trace') : trace'[i].res = "rendered"}
           prefetches == {k \in 1..Len(Issued) : Issued[k].pass = <<>>}
       IN  /\ Len(inflight') >= Len(Kept)
           /\ SubSeq(inflight', 1, Len(Kept)) = Kept
           /\ Cardinality(prefetches) <= Cardinality(rendered)
           /\ \A k \in prefetches :
                 /\ Issued[k].s < Issued[k].e
                 /\ \E i \in rendered, down \in BOOLEAN :
                       <<Issued[k].s, Issued[k].e>>
                          = PrefetchRange(trace'[i].s, trace'[i].e, down)
                 /\ hist'.act = "FetchOk"
                    => <<Issued[k].s, Issued[k].e>>
                          = PrefetchRange(renderedStartLine', renderedEndLine',
                                          inflight[hist'.arg].pass[1].down)
           /\ prefetches # {} /\ Len(trace') \in rendered => ~isRendering'
           /\ hist'.act = "FetchFail" /\ inflight[hist'.arg].pass = <<>>
              => /\ renderedStartLine' = renderedStartLine
                 /\ renderedEndLine' = renderedEndLine
                 /\ linesContainer' = linesContainer]_vars

\* a pass resumed from its fetch has rendered while scrolling up and has left
\* the prefetch of the chunk above in flight
C29_Witness ==
    /\ hist.act = "FetchOk"
    /\ \E i \in 1..Len(trace) : trace[i].res = "rendered"
    /\ ~isRendering
    /\ renderedStartLine >= CHUNK_ALIGN
    /\ inflight # <<>>
    /\ inflight[Len(inflight)].pass = <<>>
    /\ inflight[Len(inflight)].s = renderedStartLine - CHUNK_ALIGN
    /\ inflight[Len(inflight)].e = renderedStartLine


\* C31: once an edit, undo, redo, refresh or setMatches has invalidated the
\* Chunk Store, the store holds no chunk whose fetch was issued before the
\* invalidation; so every cached chunk that holds the tracked line holds the
\* text the external store has for it, and no cache hit returns pre-edit text
C31_NoChunkFromBeforeInvalidation ==
    \A i \in 1..Len(cachedChunks) :
       (cachedChunks[i].doc \in Docs /\ cachedChunks[i].txt # NoText)
       => cachedChunks[i].txt = storeText[cachedChunks[i].doc]


\* C32: once a document is loaded, the Chunk Store holds chunks of that
\* document only, and so do the lines that a pass has rendered since the load
C32_NoOtherDocument ==
    currentFileId # 0
    => /\ \A i \in 1..Len(cachedChunks) : cachedChunks[i].doc = currentFileId
       /\ (renderedStartLine >= 0 /\ linesContainer.n > 0)
            => linesContainer.doc = currentFileId


\* C33: while no document is loaded the rendered range is -1, no lines are
\* materialized and the Chunk Store is empty, whatever resolves meanwhile
C33_NothingWhileNoDocument ==
    currentFileId = 0
    => /\ renderedStartLine = -1
       /\ renderedEndLine = -1
       /\ linesContainer.n = 0
       /\ cachedChunks = <<>>


\* C34: a forced render request that found a pass executing is made up for:
\* once the scheduler is at rest, with no fetch failed and rendering never
\* suppressed, a pass has materialized its window since the request
\* (hist.owed: a forced request found the busy flag and no pass has rendered since)
C34_ForcedRequestNotLost ==
    (AtRest /\ ~hist.failed /\ ~hist.sup /\ currentFileId # 0) => ~hist.owed


\* C35: a load of a document with lines ends rendered: when a single loadFile is
\* the only event so far, nothing is pending any more and no fetch failed, the
\* rendered range is set, whatever the saved position
C35_LoadEndsRendered ==
    (ops = 1 /\ hist.ev = "LoadFile" /\ totalLines > 0 /\ AtRest /\ ~hist.failed)
    => renderedStartLine >= 0


----------------------------------------------------------------------------
(* Termination of the render scheduler *)

\* an invoke() of the store resolves or rejects
Resolve ==
    \/ \E i \in 1..Len(inflight) : FetchOk(i) \/ FetchFail(i)
    \/ \E i \in 1..Len(totalReqs) : TotalOk(i) \/ TotalFail(i)

\* finitely many external events: a document is opened, then scrolls, jumps,
\* refreshes and loads of the short document
NextRest ==
    \/ ops = 0 /\ \E d \in {1, 2}, pos \in LastPositions : LoadFile(d, pos)
    \/ ops > 0 /\ ops < MaxRestOps /\ LoadFile(1, 0)
    \/ ops > 0 /\ ops < MaxRestOps /\ \E v \in ScrollStops : Scroll(v)
    \/ ops > 0 /\ ops < MaxRestOps /\ \E n \in JumpLines : ScrollToLine(n)
    \/ ops > 0 /\ ops < MaxRestOps /\ RefreshContent
    \/ Async

\* a frame is requested or a scroll event waits: Frame can be taken, and taking
\* it changes the state (FrameProgress)
FrameEnabled == scrollEvt \/ rafQueue # <<>>

\* a request of the store is unanswered: Resolve can be taken
ResolveEnabled == inflight # <<>> \/ totalReqs # <<>>

\* the state as a record, ghosts included
Now == [S EXCEPT !.trace = trace, !.hist = hist]

FrameProgress == FrameEnabled => RunFrame(Internal(S, "Frame", 0)) # Now

\* The browser runs every requested animation frame: weak fairness of Frame,
\* written out with FrameEnabled for ENABLED <<Frame>>_vars
FairFrame == []<>(~FrameEnabled) \/ []<><<Frame>>_vars

\* The store answers every request: weak fairness of Resolve, written out with
\* ResolveEnabled for ENABLED <<Resolve>>_vars
FairResolve == []<>(~ResolveEnabled) \/ []<><<Resolve>>_vars

SpecFair == Init /\ [][NextRest]_vars /\ FairFrame /\ FairResolve

Idle == ~isRendering /\ ~pendingRender /\ scrollRAF = "none"

\* C36: with every frame run, every request of the store answered and finitely
\* many external events, the scheduler reaches Idle (busy flag clear, pending flag
\* clear, no frame scheduled) and stays there
C36_ComesToRest == <>[]Idle

\* the last external event has happened, a fetch of a pass failed on the way, and
\* the scheduler is in Idle with nothing left to run
C36_Witness ==
    /\ ops = MaxRestOps /\ hist.failed
    /\ Idle /\ ~FrameEnabled /\ ~ResolveEnabled
    /\ renderedStartLine >= 0

\* C37: the last on-line-change notification carries a line between 1 and the
\* line count it carries, and while lines of a document are rendered the stored
\* current line is between 1 and totalLines
C37_CurrentLineInDocument ==
    /\ lineChanges # <<>>
         => (1 <= lineChanges[1] /\ lineChanges[1] <= lineChanges[2])
    /\ (renderedStartLine >= 0 /\ totalLines > 0)
         => (1 <= currentLine /\ currentLine <= totalLines)

\* C38: the active match index is -1 or the index of a match of the list
C38_ActiveIndexInList ==
    -1 <= activeMatchIndex /\ activeMatchIndex < Len(searchMatches)

\* the key of the chunk a pass that rendered the current range prefetches
PrefetchedKey(down) ==
    IF down THEN <<renderedEndLine, Min(totalLines, renderedEndLine + CHUNK_ALIGN)>>
    ELSE <<Max(0, renderedStartLine - CHUNK_ALIGN), renderedStartLine>>

\* C39: while the chunk prefetched next to the rendered window in the direction
\* of the scroll is stored, no scroll pass that needs a new window in that
\* direction waits for a fetch: its request is answered from the Chunk Store
C39_NextWindowFromStore ==
    \A i \in RenderFetches :
        LET p == inflight[i].pass[1]
            key == PrefetchedKey(p.down)
        IN  ~ /\ ~p.force
              /\ renderedStartLine >= 0
              /\ inflight[i].doc = currentFileId
              /\ p.total = totalLines
              /\ Cached(key[1], key[2]) # {}

====
